---- MODULE Spec2Model ----
(***************************************************************************)
(* Authentication controller of the arktos backend (src/src/app.ts):       *)
(* register, login, refreshToken, logout, verifyEmail, changePassword over *)
(* the Prisma store (User, RefreshToken, EmailVerification, LoginLog).     *)
(*                                                                         *)
(* Every request runs in a slot of Procs.  A handler is cut at its awaited *)
(* store calls: one action is "the store call takes effect and the code    *)
(* runs on to the point where it issues the next awaited store call", so   *)
(* two requests interleave exactly where the Node event loop lets them.    *)
(* Time is the wall clock in seconds (the resolution of a JWT's iat).      *)
(***************************************************************************)
EXTENDS Integers, Sequences, FiniteSets, TLC

\* ---------------------------------------------------------------- bounds
MaxRequests == 2
MaxTicks == 1
Procs == {"p1", "p2"}

\* ------------------------------------------------------ program constants
SEVEN_DAYS == 604800
TWENTY_FOUR_HOURS == 86400
FIFTEEN_MINUTES == 900
ONE_HOUR == 3600

\* ------------------------------------------------------------ input values
\* Strings are sequences of characters so that conversions act on them.
EmailLower == <<"a", "@", "x">>
EmailUpper == <<"A", "@", "X">>
EmailOther == <<"b", "@", "x">>
Emails == {EmailLower, EmailUpper, EmailOther}

PwOne == "Passw0rd1"
PwTwo == "Passw0rd2"
Passwords == {PwOne, PwTwo}
RegisterPasswords == {PwOne}

NoUsername == <<>>

\* firstName, lastName and avatar are optional strings that register and
\* updateProfile pass through alike; firstName stands for the three
NoName == ""
FirstNames == {NoName, "Eve"}

\* the Role enumeration of the User table; user.create (app.ts 210-217) gives
\* no role, so a registered row has the column's default
Roles == {"USER", "ADMIN", "MODERATOR"}
DefaultRole == "USER"
UsernameOne == <<"n", "e", "o">>
Usernames == {NoUsername, UsernameOne}
UsernameTwo == <<"t", "r", "i">>
UsernameFree == <<"m", "o", "r">>
ProfileUsernames == {NoUsername, UsernameOne, UsernameTwo, UsernameFree}

\* String.prototype.toLowerCase on the characters the inputs use
LowerChar(c) ==
  CASE c = "A" -> "a"
    [] c = "X" -> "x"
    [] OTHER -> c

toLowerCase(s) == [i \in DOMAIN s |-> LowerChar(s[i])]

\* bcryptjs hash/compare: the stored value is a hash record, never the
\* plaintext; compare accepts exactly the inputs with the stored digest.  The
\* passwords used here are shorter than bcrypt's 72-byte input limit, so
\* distinct passwords have distinct digests.
bcryptHash(p) == [alg |-> "bcrypt", digest |-> p]

bcryptCompareAnything(p, h) == h.alg = "bcrypt"

bcryptCompare(p, h) == h.digest = bcryptHash(p).digest

\* ------------------------------------------------------------------ tokens
\* A token is its claims and the secret its HS256 signature was made with:
\* type is the payload's type field ("" when the payload has none) and exp
\* the expiry claim (NoExp when the token was signed without expiresIn).
NoExp == 0 - 1

\* jwt.sign({ userId }, secret): HS256 over {userId, iat}; iat is the clock
\* in whole seconds and no exp claim is set.  Equal payload, second and
\* secret give the same token string.
jwtSign(userId, secret, t) ==
  [userId |-> userId, iat |-> t, secret |-> secret, type |-> "", exp |-> NoExp]

\* jwt.sign({ userId, ..., type }, secret, { expiresIn }): exp = iat + expiresIn
jwtSignExpiring(userId, type, secret, t, expiresIn) ==
  [userId |-> userId, iat |-> t, secret |-> secret, type |-> type,
   exp |-> t + expiresIn]

NoToken == [userId |-> 0, iat |-> 0, secret |-> "absent", type |-> "",
            exp |-> NoExp]
GarbageToken == [userId |-> 0, iat |-> 0, secret |-> "garbage", type |-> "",
                 exp |-> NoExp]

\* jwt.verify(token, secret) at clock t: a signature not made with secret
\* throws JsonWebTokenError, then an exp claim that t has reached throws
\* TokenExpiredError; the payload's type is not looked at.
jwtVerify(tok, secret, t) ==
  IF tok.secret # secret THEN "JsonWebTokenError"
  ELSE IF tok.exp # NoExp /\ t >= tok.exp THEN "TokenExpiredError"
  ELSE "ok"

\* app.ts 130-142
generateTokens(userId, t) ==
  [accessToken |-> jwtSign(userId, "JWT_SECRET", t),
   refreshToken |-> jwtSign(userId, "JWT_REFRESH_SECRET", t)]

NoTokens == [accessToken |-> NoToken, refreshToken |-> NoToken]

\* the Authorization header: the text up to and including the first blank,
\* and the rest
NoHeader == [scheme |-> "", credentials |-> NoToken]
Bearer(tok) == [scheme |-> "Bearer ", credentials |-> tok]
Basic(tok) == [scheme |-> "Basic ", credentials |-> tok]

\* -------------------------------------------------------------- JwtService
\* jwt.service.ts 12-26: the two secrets of the environment
getAccessSecret == "JWT_SECRET"
getRefreshSecret == "JWT_REFRESH_SECRET"

\* jwt.service.ts 36-80, 112-130, 160-177: what is signed at clock t; of the
\* payload the model keeps userId and type, the fields a verifier reads
generateAccessToken(userId, t) ==
  jwtSignExpiring(userId, "access", getAccessSecret, t, FIFTEEN_MINUTES)

generateRefreshToken(userId, t) ==
  jwtSignExpiring(userId, "refresh", getRefreshSecret, t, SEVEN_DAYS)

generatePasswordResetToken(userId, t) ==
  jwtSignExpiring(userId, "password_reset", getAccessSecret, t, ONE_HOUR)

generateEmailVerifyToken(userId, t) ==
  jwtSignExpiring(userId, "email_verify", getAccessSecret, t, TWENTY_FOUR_HOURS)

\* the result of a verifier: the decoded payload, or the Error it throws
Decoded(tok) == [accepted |-> TRUE, userId |-> tok.userId, thrown |-> ""]
Thrown(message) == [accepted |-> FALSE, userId |-> 0, thrown |-> message]
NoVerdict == [accepted |-> FALSE, userId |-> 0, thrown |-> "none"]

\* jwt.service.ts 82-95
verifyAccessToken(tok, t) ==
  LET v == jwtVerify(tok, getAccessSecret, t)
  IN IF v = "ok" THEN Decoded(tok)
     ELSE IF v = "TokenExpiredError" THEN Thrown("Access token expired")
     ELSE Thrown("Invalid access token")

verifyRefreshTokenWithAccessSecret(tok, t) ==
  LET v == jwtVerify(tok, getAccessSecret, t)
  IN IF v = "ok" THEN Decoded(tok)
     ELSE IF v = "TokenExpiredError" THEN Thrown("Refresh token expired")
     ELSE Thrown("Invalid refresh token")

\* jwt.service.ts 97-110
verifyRefreshToken(tok, t) ==
  LET v == jwtVerify(tok, getRefreshSecret, t)
  IN IF v = "ok" THEN Decoded(tok)
     ELSE IF v = "TokenExpiredError" THEN Thrown("Refresh token expired")
     ELSE Thrown("Invalid refresh token")

\* jwt.service.ts 132-158: the Error thrown inside the try for a wrong type
\* is neither of the two jwt error classes and leaves by the last throw
verifyPasswordResetToken(tok, t) ==
  LET v == jwtVerify(tok, getAccessSecret, t)
  IN IF v = "ok"
     THEN IF tok.type # "password_reset"
          THEN Thrown("Password reset token verification failed")
          ELSE Decoded(tok)
     ELSE IF v = "TokenExpiredError" THEN Thrown("Password reset token expired")
     ELSE Thrown("Invalid password reset token")

\* jwt.service.ts 179-203
verifyEmailVerifyToken(tok, t) ==
  LET v == jwtVerify(tok, getAccessSecret, t)
  IN IF v = "ok"
     THEN IF tok.type # "email_verify"
          THEN Thrown("Email verification token verification failed")
          ELSE Decoded(tok)
     ELSE IF v = "TokenExpiredError"
          THEN Thrown("Email verification token expired")
     ELSE Thrown("Invalid email verification token")

Verifiers == {"access", "refresh", "password_reset", "email_verify"}

JwtServiceVerify(kind, tok, t) ==
  CASE kind = "access" -> verifyAccessToken(tok, t)
    [] kind = "refresh" -> verifyRefreshToken(tok, t)
    [] kind = "password_reset" -> verifyPasswordResetToken(tok, t)
    [] kind = "email_verify" -> verifyEmailVerifyToken(tok, t)

\* --------------------------------------------------------------- responses
\* the data.user of a response that carries no user
NoProjection == [id |-> 0]

NoRes == [status |-> 0, code |-> "", message |-> "", tokens |-> NoTokens,
          user |-> NoProjection]

createErrorResponse(status, message, code) ==
  [status |-> status, code |-> code, message |-> message, tokens |-> NoTokens,
   user |-> NoProjection]

createSuccessResponse(status, toks, message, code) ==
  [status |-> status, code |-> code, message |-> message, tokens |-> toks,
   user |-> NoProjection]

\* createSuccessResponse({ user, ... }, message, code): the data carries a user
withUser(res, user) == [res EXCEPT !.user = user]

\* app.ts 218-226: the columns user.create selects for register's response
\* (firstName stands for firstName and lastName)
createSelect(user) ==
  [id |-> user.id, email |-> user.email, firstName |-> user.firstName,
   username |-> user.username, isEmailVerified |-> user.isEmailVerified]

userResponseWholeRow(user) == user

\* app.ts 328-338: the fields login copies from the row it read
userResponse(user) ==
  [id |-> user.id, email |-> user.email, firstName |-> user.firstName,
   username |-> user.username, role |-> user.role,
   isEmailVerified |-> user.isEmailVerified, lastLoginAt |-> user.lastLoginAt]

\* app.ts 559-570: the columns user.update selects for updateProfile's response
updateSelect(user) ==
  [id |-> user.id, email |-> user.email, firstName |-> user.firstName,
   username |-> user.username, role |-> user.role,
   isEmailVerified |-> user.isEmailVerified, lastLoginAt |-> user.lastLoginAt]

\* app.ts 274-277: login, no user with the email
UserNotFoundResponse ==
  createErrorResponse(401, "Invalid credentials", "AUTH_INVALID_CREDENTIALS")

InvalidPasswordResponseDistinct ==
  createErrorResponse(401, "Invalid password", "AUTH_INVALID_PASSWORD")

\* app.ts 296-299: login, password mismatch
InvalidPasswordResponse ==
  createErrorResponse(401, "Invalid credentials", "AUTH_INVALID_CREDENTIALS")

\* what a caller can tell responses apart by
Visible(r) == <<r.status, r.code, r.message>>

\* app.ts 248-252
RegistrationSuccess ==
  createSuccessResponse(201, NoTokens,
    "Registration successful. Please check your email to verify your account.",
    "REGISTRATION_SUCCESS")

\* app.ts 255-258 and the other handlers' catch blocks
InternalError ==
  createErrorResponse(500, "Internal server error", "INTERNAL_ERROR")

\* ------------------------------------------------------------------- state
VARIABLES
  users,               \* User table, row i has id i
  refreshTokens,       \* RefreshToken table, row i has id i
  emailVerifications,  \* EmailVerification table, row i has id i
  loginLogs,           \* LoginLog table
  now,                 \* wall clock, seconds
  pc,                  \* per slot: where the request's handler stands
  req,                 \* per slot: the request being served
  loc,                 \* per slot: the handler's local variables
  ev,                  \* the request answered by the last step, if any
  started,             \* number of requests accepted so far
  ticks,               \* number of clock advances so far
  issued,              \* tokens that have been returned to a caller
  redeemed,            \* refresh tokens for which refresh answered 200
  loggedOut,           \* refresh tokens for which logout answered
  verifiedOk,          \* verification tokens verifyEmail answered success for
  mustBeRevoked,       \* RefreshToken ids covered by a finished changePassword
  parentOf,            \* per RefreshToken row: the token it was rotated from
  storedPlain,         \* per user: the plaintext last stored as password
  seen,                \* login failure responses observed, per cause
  storeFaults,         \* whether calls to the store may reject in this run
  outbox               \* mails handed to the mail provider

store == <<users, refreshTokens, emailVerifications, loginLogs>>
ghost == <<issued, redeemed, loggedOut, verifiedOk, mustBeRevoked, parentOf,
           storedPlain, seen>>
\* what no handler writes: the store's health and the provider's mailbox
world == <<storeFaults, outbox>>
vars == <<users, refreshTokens, emailVerifications, loginLogs, now, pc, req,
          loc, ev, started, ticks, issued, redeemed, loggedOut, verifiedOk,
          mustBeRevoked, parentOf, storedPlain, seen, storeFaults, outbox>>

NoTime == 0 - 1

NoUser == [id |-> 0, email |-> <<>>, password |-> [alg |-> "none", digest |-> ""],
           firstName |-> NoName,
           username |-> NoUsername, role |-> "", isActive |-> FALSE,
           isEmailVerified |-> FALSE, lastLoginAt |-> NoTime]

\* what a store read that rejected leaves in place of a row
Rejected == [NoUser EXCEPT !.id = 0 - 1]

\* express.d.ts 88-102: the columns the gate selects for req.user
selectContext(user) ==
  [id |-> user.id, email |-> user.email, firstName |-> user.firstName,
   username |-> user.username, role |-> user.role, isEmailVerified |-> user.isEmailVerified,
   isActive |-> user.isActive, lastLoginAt |-> user.lastLoginAt]

NoContext == selectContext(NoUser)

NoRow == [id |-> 0, userId |-> 0, token |-> NoToken, isRevoked |-> FALSE,
          expiresAt |-> 0]

NoVerification == [id |-> 0, userId |-> 0, token |-> 0, email |-> <<>>,
                   status |-> "NONE", expiresAt |-> 0]

NoReq == [op |-> "none", email |-> <<>>, password |-> "",
          newPassword |-> "", firstName |-> NoName,
          username |-> NoUsername, token |-> NoToken,
          vtoken |-> 0, bearer |-> NoToken, authorization |-> NoHeader,
          allowedRoles |-> {}, verifier |-> ""]

NoLoc == [user |-> NoUser, tokenRecord |-> NoRow, verification |-> NoVerification,
          tokens |-> NoTokens, expiresAt |-> 0, at |-> 0, failReason |-> "",
          pending |-> NoRes, facts |-> {}, plainAtRead |-> "",
          rowsAtStart |-> {}, context |-> NoContext, nextCalls |-> 0,
          verdict |-> NoVerdict, usersBefore |-> <<>>, rowsBefore |-> <<>>,
          logsBefore |-> <<>>, usersAtLookup |-> <<>>]

NoEv == [req |-> NoReq, loc |-> NoLoc, res |-> NoRes]

\* ------------------------------------------------------------ store access
\* prisma.user.findUnique({ where: { email } })
findUserByEmail(e) ==
  IF \E i \in DOMAIN users : users[i].email = e
  THEN users[CHOOSE i \in DOMAIN users : users[i].email = e]
  ELSE NoUser

\* prisma.user.findUnique({ where: { username } })
findUserByUsername(n) ==
  IF \E i \in DOMAIN users : users[i].username = n
  THEN users[CHOOSE i \in DOMAIN users : users[i].username = n]
  ELSE NoUser

\* prisma.user.findUnique({ where: { id } })
findUserById(id) == IF id \in DOMAIN users THEN users[id] ELSE NoUser

\* the same read when the call can reject
lookupUserById(id, ok) == IF ok THEN findUserById(id) ELSE Rejected

\* prisma.refreshToken.findUnique({ where: { token } })
findRefreshToken(tok) ==
  IF \E i \in DOMAIN refreshTokens : refreshTokens[i].token = tok
  THEN refreshTokens[CHOOSE i \in DOMAIN refreshTokens : refreshTokens[i].token = tok]
  ELSE NoRow

\* prisma.emailVerification.findUnique({ where: { token } })
findVerification(tok) ==
  IF \E i \in DOMAIN emailVerifications : emailVerifications[i].token = tok
  THEN emailVerifications[CHOOSE i \in DOMAIN emailVerifications :
                            emailVerifications[i].token = tok]
  ELSE NoVerification

\* the store's unique constraints (the columns findUnique is used on)
UserUniqueViolation(email, username) ==
  \E i \in DOMAIN users :
    \/ users[i].email = email
    \/ username # NoUsername /\ users[i].username = username

TokenUniqueViolation(tok) ==
  \E i \in DOMAIN refreshTokens : refreshTokens[i].token = tok

\* the userId login passes when no user has the email (app.ts 273)
unknown == 0

LoginLog(userId, isSuccess, failReason) ==
  [userId |-> userId, loginType |-> "EMAIL", isSuccess |-> isSuccess,
   failReason |-> failReason]

\* what a call of logLoginAttempt leaves: the LoginLog table, and whether
\* the call threw into its caller
Logged(rows, thrown) == [loginLogs |-> rows, thrown |-> thrown]

logLoginAttemptDropped(userId, isSuccess, failReason, created) ==
  Logged(loginLogs, FALSE)

logLoginAttemptOfAnyone(userId, isSuccess, failReason, created) ==
  IF created
  THEN Logged(Append(loginLogs, LoginLog(userId, isSuccess, failReason)), FALSE)
  ELSE Logged(loginLogs, FALSE)

logLoginAttemptOverwriting(userId, isSuccess, failReason, created) ==
  IF userId = unknown \/ ~created THEN Logged(loginLogs, FALSE)
  ELSE IF loginLogs = <<>>
       THEN Logged(<<LoginLog(userId, isSuccess, failReason)>>, FALSE)
       ELSE Logged([loginLogs EXCEPT ![Len(loginLogs)] =
                      LoginLog(userId, isSuccess, failReason)], FALSE)

logLoginAttemptRethrowing(userId, isSuccess, failReason, created) ==
  IF userId = unknown THEN Logged(loginLogs, FALSE)
  ELSE IF created
       THEN Logged(Append(loginLogs, LoginLog(userId, isSuccess, failReason)),
                   FALSE)
       ELSE Logged(loginLogs, TRUE)

\* app.ts 144-169: nothing for the unknown user; otherwise loginLog.create,
\* whose rejection (created = FALSE) the catch of line 166 keeps
logLoginAttempt(userId, isSuccess, failReason, created) ==
  IF userId = unknown THEN Logged(loginLogs, FALSE)
  ELSE IF created
       THEN Logged(Append(loginLogs, LoginLog(userId, isSuccess, failReason)),
                   FALSE)
       ELSE Logged(loginLogs, FALSE)

revokeFirstOfUser(uid) ==
  [i \in DOMAIN refreshTokens |->
     IF /\ refreshTokens[i].userId = uid
        /\ \A j \in DOMAIN refreshTokens : refreshTokens[j].userId = uid => i <= j
     THEN [refreshTokens[i] EXCEPT !.isRevoked = TRUE]
     ELSE refreshTokens[i]]

\* prisma.refreshToken.updateMany({ where: { userId }, data: { isRevoked: true } })
revokeAllOfUser(uid) ==
  [i \in DOMAIN refreshTokens |->
     IF refreshTokens[i].userId = uid
     THEN [refreshTokens[i] EXCEPT !.isRevoked = TRUE]
     ELSE refreshTokens[i]]

revokeByTokenNever(tok) == refreshTokens

revokeByTokenToggling(tok) ==
  [i \in DOMAIN refreshTokens |->
     IF refreshTokens[i].token = tok
     THEN [refreshTokens[i] EXCEPT !.isRevoked = ~@]
     ELSE refreshTokens[i]]

\* prisma.refreshToken.updateMany({ where: { token }, data: { isRevoked: true } })
revokeByToken(tok) ==
  [i \in DOMAIN refreshTokens |->
     IF refreshTokens[i].token = tok
     THEN [refreshTokens[i] EXCEPT !.isRevoked = TRUE]
     ELSE refreshTokens[i]]

refreshRowRejectionTelling(tokenRecord, t) ==
  IF tokenRecord = NoRow
  THEN createErrorResponse(401, "Unknown refresh token", "AUTH_TOKEN_INVALID")
  ELSE createErrorResponse(401, "Invalid or expired refresh token",
                           "AUTH_TOKEN_EXPIRED")

\* app.ts 381-384: the one answer to a row that line 380 rejects
refreshRowRejection(tokenRecord, t) ==
  createErrorResponse(401, "Invalid or expired refresh token",
                      "AUTH_TOKEN_EXPIRED")

\* app.ts 380: the row is missing, revoked or past its expiry
RefreshRejectsIgnoreRevoked(tokenRecord, t) ==
  tokenRecord = NoRow \/ tokenRecord.expiresAt < t

RefreshRejectsInactive(tokenRecord, t) ==
  \/ tokenRecord = NoRow \/ tokenRecord.isRevoked \/ tokenRecord.expiresAt < t
  \/ ~users[tokenRecord.userId].isActive

RefreshRejectsNoExpiry(tokenRecord, t) ==
  tokenRecord = NoRow \/ tokenRecord.isRevoked

RefreshRejects(tokenRecord, t) ==
  tokenRecord = NoRow \/ tokenRecord.isRevoked \/ tokenRecord.expiresAt < t

verificationExpiresAtOneHour(t) == t + ONE_HOUR

\* app.ts 237: new Date(Date.now() + 24 * 60 * 60 * 1000)
verificationExpiresAt(t) == t + TWENTY_FOUR_HOURS

\* email.service.ts 15-80: the mail is handed to the provider, or the
\* failure is logged and thrown again (sent = FALSE); no handler calls it
sendEmailVerification(email, verifyToken, sent) ==
  IF sent
  THEN [outbox |-> Append(outbox, [to |-> email, verifyToken |-> verifyToken]),
        thrown |-> FALSE]
  ELSE [outbox |-> outbox, thrown |-> TRUE]

\* bodies that do not pass their schema: an email without a local part and a
\* domain around an "@", and a username of fewer than three characters
EmailMalformed == <<"a", "x">>
UsernameShort == <<"n", "e">>

isEmailAnything(s) == TRUE

\* z.string().email(): a local part, an "@" and a domain (the one letter after
\* the "@" stands for a domain name)
isEmail(s) == \E i \in DOMAIN s : s[i] = "@" /\ 1 < i /\ i < Len(s)

\* z.string().min(3)...optional(): an absent username passes
usernameSchema(username) == username = NoUsername \/ Len(username) >= 3

\* eslint.config.js 132-146; the passwords of the inputs satisfy the
\* password rules
registerSchema(email, username) == isEmail(email) /\ usernameSchema(username)

\* eslint.config.js 127-130
loginSchema(email, password) == isEmail(email) /\ password # ""

\* eslint.config.js 148-150: a body without the token, or with an empty one,
\* does not pass
refreshTokenSchema(refreshToken) == refreshToken # NoToken

\* eslint.config.js 182-192
updateProfileSchema(firstName, username) == usernameSchema(username)

\* eslint.config.js 168-179: changePasswordSchema's refine
changePasswordSchema(currentPassword, newPassword) ==
  newPassword # currentPassword

verificationExpiredUnlessVerified(verification, t) ==
  verification.status # "VERIFIED" /\ verification.expiresAt < t

\* app.ts 472: the row's expiresAt lies before new Date()
verificationExpired(verification, t) == verification.expiresAt < t

alreadyVerifiedNever(verification) == FALSE

\* app.ts 480: the row was verified before
alreadyVerified(verification) == verification.status = "VERIFIED"

LoginInputs == {<<EmailUpper, PwOne>>, <<EmailUpper, PwTwo>>, <<EmailOther, PwOne>>}
UnknownVerificationToken == 0

\* ---------------------------------------------------------------- requests
\* a new request takes the first free slot
Accept(p) ==
  /\ pc[p] = "idle"
  /\ (p # "p1") => (pc["p1"] # "idle")
  /\ started < MaxRequests
  /\ started' = started + 1

\* the handler sends its response and the slot is free again
Reply(p, rq, lc, r) ==
  /\ ev' = [req |-> rq, loc |-> lc, res |-> r]
  /\ pc' = [pc EXCEPT ![p] = "idle"]
  /\ req' = [req EXCEPT ![p] = NoReq]
  /\ loc' = [loc EXCEPT ![p] = NoLoc]
  /\ UNCHANGED world

\* a store call rejected and the catch block of the handler answers
Rejects(p, rq, lc, r) ==
  Reply(p, rq, [lc EXCEPT !.facts = @ \cup {"storeCallFailed"}], r)

\* how an awaited store call can end: TRUE when it resolves
CallOutcomes == IF storeFaults THEN BOOLEAN ELSE {TRUE}

\* the handler issues its next awaited call
Await(p, rq, lc, label) ==
  /\ ev' = NoEv
  /\ pc' = [pc EXCEPT ![p] = label]
  /\ req' = [req EXCEPT ![p] = rq]
  /\ loc' = [loc EXCEPT ![p] = lc]
  /\ UNCHANGED world

Init ==
  /\ users = <<>>
  /\ refreshTokens = <<>>
  /\ emailVerifications = <<>>
  /\ loginLogs = <<>>
  /\ now = 0
  /\ pc = [p \in Procs |-> "idle"]
  /\ req = [p \in Procs |-> NoReq]
  /\ loc = [p \in Procs |-> NoLoc]
  /\ ev = NoEv
  /\ started = 0
  /\ ticks = 0
  /\ issued = {}
  /\ redeemed = {}
  /\ loggedOut = {}
  /\ verifiedOk = {}
  /\ mustBeRevoked = {}
  /\ parentOf = <<>>
  /\ storedPlain = <<>>
  /\ seen = [notFound |-> {}, wrongPassword |-> {}]
  /\ storeFaults = FALSE
  /\ outbox = <<>>

\* The clock moves on by a second or by a whole refresh-token lifetime.
Tick ==
  /\ ticks < MaxTicks
  /\ \E d \in {1, SEVEN_DAYS} : now' = now + d
  /\ ticks' = ticks + 1
  /\ ev' = NoEv
  /\ UNCHANGED <<store, pc, req, loc, started, ghost, world>>

\* ---------------------------------------------------------------- register
\* app.ts 171-207: the schema, whose failure is thrown into the catch, then
\* findUnique by lower-cased email, 409 if taken
RegisterStart(p, email, password, username) ==
  LET rq == [NoReq EXCEPT !.op = "register", !.email = email,
                          !.password = password, !.username = username]
  IN /\ Accept(p)
     /\ \E ok \in CallOutcomes :
          IF ~registerSchema(email, username)
          THEN Reply(p, rq, NoLoc, InternalError)
          ELSE IF ~ok THEN Rejects(p, rq, NoLoc, InternalError)
          ELSE IF findUserByEmail(toLowerCase(email)) # NoUser
          THEN Reply(p, rq, NoLoc, createErrorResponse(409,
                       "User already exists with this email", "AUTH_USER_EXISTS"))
          ELSE IF username # NoUsername
               THEN Await(p, rq, NoLoc, "rg_findUsername")
               ELSE Await(p, rq, NoLoc, "rg_createUser")
     /\ UNCHANGED <<store, now, ticks, ghost>>

\* app.ts 190-207: findUnique by username, 409 if taken, then hash
RegisterFindUsername(p) ==
  /\ pc[p] = "rg_findUsername"
  /\ \E ok \in CallOutcomes :
       IF ~ok THEN Rejects(p, req[p], loc[p], InternalError)
       ELSE IF findUserByUsername(req[p].username) # NoUser
       THEN Reply(p, req[p], loc[p], createErrorResponse(409,
                    "Username already taken", "AUTH_USERNAME_TAKEN"))
       ELSE Await(p, req[p], loc[p], "rg_createUser")
  /\ UNCHANGED <<store, now, started, ticks, ghost>>

\* app.ts 209-237: user.create; a unique violation is thrown into the catch
RegisterCreateUser(p) ==
  /\ pc[p] = "rg_createUser"
  /\ LET email == toLowerCase(req[p].email)
         u == [id |-> Len(users) + 1, email |-> email,
               password |-> bcryptHash(req[p].password),
               firstName |-> req[p].firstName,
               username |-> req[p].username, role |-> DefaultRole,
               isActive |-> TRUE,
               isEmailVerified |-> FALSE, lastLoginAt |-> NoTime]
     IN \E ok \in CallOutcomes :
        IF ~ok \/ UserUniqueViolation(email, req[p].username)
        THEN /\ Rejects(p, req[p], loc[p], InternalError)
             /\ UNCHANGED <<users, storedPlain>>
        ELSE /\ users' = Append(users, u)
             /\ storedPlain' = Append(storedPlain, req[p].password)
             /\ Await(p, req[p],
                      [loc[p] EXCEPT !.user = u, !.at = now,
                                     !.expiresAt = verificationExpiresAt(now)],
                      "rg_createVerification")
  /\ UNCHANGED <<refreshTokens, emailVerifications, loginLogs, now, started,
                 ticks, issued, redeemed, loggedOut, verifiedOk, mustBeRevoked,
                 parentOf,
                 seen>>

\* app.ts 229-244: emailVerification.create with a fresh random token; the
\* mail of lines 241-242 is commented out, so nothing is handed to the
\* provider
RegisterCreateVerification(p) ==
  /\ pc[p] = "rg_createVerification"
  /\ LET verification ==
           [id |-> Len(emailVerifications) + 1, userId |-> loc[p].user.id,
            token |-> Len(emailVerifications) + 1, email |-> loc[p].user.email,
            status |-> "PENDING", expiresAt |-> loc[p].expiresAt]
     IN \E ok \in CallOutcomes :
          IF ~ok
          THEN /\ Rejects(p, req[p], loc[p], InternalError)
               /\ UNCHANGED emailVerifications
          ELSE /\ emailVerifications' = Append(emailVerifications, verification)
               /\ Await(p, req[p],
                        [loc[p] EXCEPT !.verification = verification], "rg_log")
  /\ UNCHANGED <<users, refreshTokens, loginLogs, now, started, ticks, ghost>>

\* app.ts 244-252: audit row, then 201
RegisterLog(p) ==
  /\ pc[p] = "rg_log"
  /\ \E created \in CallOutcomes :
       LET logged == logLoginAttempt(loc[p].user.id, FALSE,
                        "REGISTRATION_PENDING_VERIFICATION", created)
           lc == [loc[p] EXCEPT !.logsBefore = loginLogs,
                    !.facts = IF created THEN {} ELSE {"logWriteFailed"}]
       IN /\ loginLogs' = logged.loginLogs
          /\ IF logged.thrown
             THEN Rejects(p, req[p], lc, InternalError)
             ELSE Reply(p, req[p], lc,
                        withUser(RegistrationSuccess, createSelect(loc[p].user)))
  /\ UNCHANGED <<users, refreshTokens, emailVerifications, now, started,
                 ticks, ghost>>

Register(p) ==
  \/ \E e \in Emails, pw \in RegisterPasswords, n \in Usernames :
       RegisterStart(p, e, pw, n)
  \/ RegisterFindUsername(p)
  \/ RegisterCreateUser(p)
  \/ RegisterCreateVerification(p)
  \/ RegisterLog(p)

\* ------------------------------------------------------------------- login
\* app.ts 262-301: find the user, reject unknown, deactivated, wrong password
LoginStart(p, email, password) ==
  LET rq == [NoReq EXCEPT !.op = "login", !.email = email, !.password = password]
      user == findUserByEmail(toLowerCase(email))
      lc == [NoLoc EXCEPT !.user = user,
                          !.plainAtRead = IF user = NoUser THEN ""
                                          ELSE storedPlain[user.id]]
      logged == logLoginAttempt(unknown, FALSE, "USER_NOT_FOUND", TRUE)
  IN /\ Accept(p)
     /\ \E ok \in CallOutcomes :
        IF ~loginSchema(email, password)
        THEN /\ Reply(p, rq, NoLoc, InternalError)
             /\ UNCHANGED <<loginLogs, seen>>
        ELSE IF ~ok
        THEN /\ Rejects(p, rq, NoLoc, InternalError)
             /\ UNCHANGED <<loginLogs, seen>>
        ELSE IF user = NoUser
        THEN /\ loginLogs' = logged.loginLogs
             /\ IF logged.thrown
                THEN /\ Rejects(p, rq, lc, InternalError)
                     /\ seen' = seen
                ELSE /\ Reply(p, rq, [lc EXCEPT !.logsBefore = loginLogs],
                              UserNotFoundResponse)
                     /\ seen' = [seen EXCEPT !.notFound = @ \cup
                                   {Visible(UserNotFoundResponse)}]
        ELSE /\ UNCHANGED <<loginLogs, seen>>
             /\ IF ~user.isActive
                THEN Await(p, rq,
                       [lc EXCEPT !.failReason = "ACCOUNT_DEACTIVATED",
                                  !.pending = createErrorResponse(403,
                                     "Account is deactivated",
                                     "AUTH_ACCOUNT_DEACTIVATED")],
                       "lg_logFail")
                ELSE IF ~bcryptCompare(password, user.password)
                     THEN Await(p, rq,
                            [lc EXCEPT !.failReason = "INVALID_PASSWORD",
                                       !.pending = InvalidPasswordResponse],
                            "lg_logFail")
                     ELSE Await(p, rq, [lc EXCEPT !.at = now],
                                "lg_updateLastLogin")
     /\ UNCHANGED <<users, refreshTokens, emailVerifications, now, ticks,
                    issued, redeemed, loggedOut, verifiedOk, mustBeRevoked,
                    parentOf, storedPlain>>

\* app.ts 144-169 called from 282 / 295: audit row, then the pending error
LoginLogFail(p) ==
  /\ pc[p] = "lg_logFail"
  /\ \E created \in CallOutcomes :
       LET logged == logLoginAttempt(loc[p].user.id, FALSE, loc[p].failReason,
                                     created)
           lc == [loc[p] EXCEPT !.usersBefore = users,
                    !.rowsBefore = refreshTokens, !.logsBefore = loginLogs,
                    !.facts = IF created THEN {} ELSE {"logWriteFailed"}]
       IN /\ loginLogs' = logged.loginLogs
          /\ IF logged.thrown
             THEN /\ Rejects(p, req[p], lc, InternalError)
                  /\ seen' = seen
             ELSE /\ Reply(p, req[p], lc, loc[p].pending)
                  /\ seen' = IF loc[p].failReason = "INVALID_PASSWORD"
                             THEN [seen EXCEPT !.wrongPassword = @ \cup
                                     {Visible(loc[p].pending)}]
                             ELSE seen
  /\ UNCHANGED <<users, refreshTokens, emailVerifications, now, started,
                 ticks, issued, redeemed, loggedOut, verifiedOk, mustBeRevoked,
                 parentOf,
                 storedPlain>>

\* app.ts 303-314: user.update lastLoginAt, then sign the pair
LoginUpdateLastLogin(p) ==
  /\ pc[p] = "lg_updateLastLogin"
  /\ \E ok \in CallOutcomes :
       IF ~ok
       THEN /\ Rejects(p, req[p], loc[p], InternalError)
            /\ UNCHANGED users
       ELSE /\ users' = [users EXCEPT ![loc[p].user.id].lastLoginAt = loc[p].at]
            /\ Await(p, req[p],
                     [loc[p] EXCEPT !.tokens = generateTokens(loc[p].user.id, now),
                                    !.expiresAt = now + SEVEN_DAYS],
                     "lg_createToken")
  /\ UNCHANGED <<refreshTokens, emailVerifications, loginLogs, now, started,
                 ticks, ghost>>

\* app.ts 316-322: refreshToken.create; a duplicate token string is thrown
LoginCreateToken(p) ==
  /\ pc[p] = "lg_createToken"
  /\ \E ok \in CallOutcomes :
     IF ~ok \/ TokenUniqueViolation(loc[p].tokens.refreshToken)
     THEN /\ Rejects(p, req[p], loc[p], InternalError)
          /\ UNCHANGED <<refreshTokens, parentOf>>
     ELSE /\ refreshTokens' = Append(refreshTokens,
               [id |-> Len(refreshTokens) + 1, userId |-> loc[p].user.id,
                token |-> loc[p].tokens.refreshToken, isRevoked |-> FALSE,
                expiresAt |-> loc[p].expiresAt])
          /\ parentOf' = Append(parentOf, NoToken)
          /\ Await(p, req[p], loc[p], "lg_logSuccess")
  /\ UNCHANGED <<users, emailVerifications, loginLogs, now, started, ticks,
                 issued, redeemed, loggedOut, verifiedOk, mustBeRevoked,
                 storedPlain, seen>>

\* app.ts 324-347: audit row, then 200 with the pair
LoginLogSuccess(p) ==
  /\ pc[p] = "lg_logSuccess"
  /\ \E created \in CallOutcomes :
       LET logged == logLoginAttempt(loc[p].user.id, TRUE, "", created)
           lc == [loc[p] EXCEPT !.logsBefore = loginLogs,
                    !.facts = IF created THEN {} ELSE {"logWriteFailed"}]
       IN /\ loginLogs' = logged.loginLogs
          /\ IF logged.thrown
             THEN /\ Rejects(p, req[p], lc, InternalError)
                  /\ issued' = issued
             ELSE /\ Reply(p, req[p], lc,
                           withUser(createSuccessResponse(200, loc[p].tokens,
                                      "Login successful", "LOGIN_SUCCESS"),
                                    userResponse(loc[p].user)))
                  /\ issued' = issued \cup {loc[p].tokens.accessToken,
                                            loc[p].tokens.refreshToken}
  /\ UNCHANGED <<users, refreshTokens, emailVerifications, now, started,
                 ticks, redeemed, loggedOut, verifiedOk, mustBeRevoked,
                 parentOf,
                 storedPlain, seen>>

Login(p) ==
  \/ \E c \in LoginInputs : LoginStart(p, c[1], c[2])
  \/ LoginLogFail(p)
  \/ LoginUpdateLastLogin(p)
  \/ LoginCreateToken(p)
  \/ LoginLogSuccess(p)

\* ------------------------------------------------------------ refreshToken
\* app.ts 357-389: verify the signature, find the row, check it, sign a pair
RefreshStart(p, tok) ==
  LET rq == [NoReq EXCEPT !.op = "refresh", !.token = tok]
      tokenRecord == findRefreshToken(tok)
      lc == [NoLoc EXCEPT !.tokenRecord = tokenRecord, !.at = now,
               !.facts = (IF tok \in redeemed THEN {"afterRedeem"} ELSE {})
                   \cup (IF tok \in loggedOut THEN {"afterLogout"} ELSE {})
                   \cup (IF tokenRecord.id \in mustBeRevoked
                         THEN {"afterPasswordChange"} ELSE {})]
  IN /\ Accept(p)
     /\ IF ~refreshTokenSchema(tok)
        THEN Reply(p, rq, [NoLoc EXCEPT !.at = now], InternalError)
        ELSE IF jwtVerify(tok, "JWT_REFRESH_SECRET", now) # "ok"
        THEN Reply(p, rq, [NoLoc EXCEPT !.at = now], createErrorResponse(401,
                     "Invalid refresh token", "AUTH_TOKEN_EXPIRED"))
        ELSE \E ok \in CallOutcomes :
             IF ~ok
             THEN Rejects(p, rq, [NoLoc EXCEPT !.at = now], InternalError)
             ELSE IF RefreshRejects(tokenRecord, now)
             THEN Reply(p, rq, lc, refreshRowRejection(tokenRecord, now))
             ELSE Await(p, rq,
                        [lc EXCEPT !.tokens = generateTokens(tok.userId, now)],
                        "rf_revoke")
     /\ UNCHANGED <<store, now, ticks, ghost>>

\* app.ts 391-399: refreshToken.update isRevoked on the row that was read
RefreshRevoke(p) ==
  /\ pc[p] = "rf_revoke"
  /\ \E ok \in CallOutcomes :
       IF ~ok
       THEN /\ Rejects(p, req[p], loc[p], InternalError)
            /\ UNCHANGED refreshTokens
       ELSE /\ refreshTokens' = [refreshTokens EXCEPT
                                   ![loc[p].tokenRecord.id].isRevoked = TRUE]
            /\ Await(p, req[p], [loc[p] EXCEPT !.expiresAt = now + SEVEN_DAYS],
                     "rf_create")
  /\ UNCHANGED <<users, emailVerifications, loginLogs, now, started, ticks,
                 ghost>>

\* app.ts 401-425: refreshToken.create, then 200; a duplicate token string
\* is thrown into the catch
RefreshCreate(p) ==
  /\ pc[p] = "rf_create"
  /\ \E ok \in CallOutcomes :
     IF ~ok \/ TokenUniqueViolation(loc[p].tokens.refreshToken)
     THEN /\ Rejects(p, req[p], loc[p], InternalError)
          /\ UNCHANGED <<refreshTokens, parentOf, issued, redeemed>>
     ELSE /\ refreshTokens' = Append(refreshTokens,
               [id |-> Len(refreshTokens) + 1, userId |-> req[p].token.userId,
                token |-> loc[p].tokens.refreshToken, isRevoked |-> FALSE,
                expiresAt |-> loc[p].expiresAt])
          /\ parentOf' = Append(parentOf, req[p].token)
          /\ issued' = issued \cup {loc[p].tokens.accessToken,
                                    loc[p].tokens.refreshToken}
          /\ redeemed' = redeemed \cup {req[p].token}
          /\ Reply(p, req[p], loc[p], createSuccessResponse(200, loc[p].tokens,
                     "Tokens refreshed successfully", "TOKEN_REFRESH_SUCCESS"))
  /\ UNCHANGED <<users, emailVerifications, loginLogs, now, started, ticks,
                 loggedOut, verifiedOk, mustBeRevoked, storedPlain, seen>>

IssuedWith(secret) == {t \in issued : t.secret = secret}

Refresh(p) ==
  \/ \E tok \in IssuedWith("JWT_REFRESH_SECRET") \cup {GarbageToken} :
       RefreshStart(p, tok)
  \/ RefreshRevoke(p)
  \/ RefreshCreate(p)

\* ------------------------------------------------------------------ logout
\* app.ts 428-453: revoke every row with the token string, always 200
Logout(p, tok) ==
  LET rq == [NoReq EXCEPT !.op = "logout", !.token = tok]
      lc == [NoLoc EXCEPT !.at = now, !.rowsBefore = refreshTokens,
               !.facts = IF tok \in loggedOut THEN {"afterLogout"} ELSE {}]
  IN /\ Accept(p)
     /\ \E ok \in CallOutcomes :
        IF tok # NoToken /\ ~ok
        THEN /\ Rejects(p, rq, lc, InternalError)
             /\ UNCHANGED <<refreshTokens, loggedOut>>
        ELSE /\ refreshTokens' = IF tok # NoToken THEN revokeByToken(tok)
                                 ELSE refreshTokens
             /\ loggedOut' = IF tok # NoToken THEN loggedOut \cup {tok}
                             ELSE loggedOut
             /\ Reply(p, rq, lc,
                      createSuccessResponse(200, NoTokens,
                        "Logged out successfully", "LOGOUT_SUCCESS"))
     /\ UNCHANGED <<users, emailVerifications, loginLogs, now, ticks, issued,
                    redeemed, verifiedOk, mustBeRevoked, parentOf, storedPlain,
                    seen>>

\* ------------------------------------------------------------- verifyEmail
\* app.ts 455-487: find the row, reject unknown and expired, short-cut verified
VerifyEmailStart(p, vtok) ==
  LET rq == [NoReq EXCEPT !.op = "verifyEmail", !.vtoken = vtok]
      verification == findVerification(vtok)
      lc == [NoLoc EXCEPT !.verification = verification, !.at = now,
               !.facts = IF vtok \in verifiedOk THEN {"afterVerify"} ELSE {}]
  IN /\ Accept(p)
     /\ \E ok \in CallOutcomes :
        IF ~ok THEN Rejects(p, rq, [NoLoc EXCEPT !.at = now], InternalError)
        ELSE IF verification = NoVerification
        THEN Reply(p, rq, lc, createErrorResponse(400,
                     "Invalid verification token", "AUTH_INVALID_TOKEN"))
        ELSE IF verificationExpired(verification, now)
             THEN Reply(p, rq, lc, createErrorResponse(400,
                          "Verification token has expired", "AUTH_TOKEN_EXPIRED"))
             ELSE IF alreadyVerified(verification)
                  THEN Reply(p, rq, lc, createSuccessResponse(200, NoTokens,
                               "Email already verified", "EMAIL_ALREADY_VERIFIED"))
                  ELSE Await(p, rq, lc, "ve_updateUser")
     /\ UNCHANGED <<store, now, ticks, ghost>>

\* app.ts 489-493: user.update isEmailVerified
VerifyEmailUpdateUser(p) ==
  /\ pc[p] = "ve_updateUser"
  /\ \E ok \in CallOutcomes :
       IF ~ok
       THEN /\ Rejects(p, req[p], loc[p], InternalError)
            /\ UNCHANGED users
       ELSE /\ users' = [users EXCEPT
                           ![loc[p].verification.userId].isEmailVerified = TRUE]
            /\ Await(p, req[p], loc[p], "ve_updateVerification")
  /\ UNCHANGED <<refreshTokens, emailVerifications, loginLogs, now, started,
                 ticks, ghost>>

\* app.ts 495-506: emailVerification.update status, then 200
VerifyEmailUpdateVerification(p) ==
  /\ pc[p] = "ve_updateVerification"
  /\ \E ok \in CallOutcomes :
       IF ~ok
       THEN /\ Rejects(p, req[p], loc[p], InternalError)
            /\ UNCHANGED <<emailVerifications, verifiedOk>>
       ELSE /\ emailVerifications' = [emailVerifications EXCEPT
                                  ![loc[p].verification.id].status = "VERIFIED"]
            /\ verifiedOk' = verifiedOk \cup {req[p].vtoken}
            /\ Reply(p, req[p], loc[p], createSuccessResponse(200, NoTokens,
                       "Email verified successfully",
                       "EMAIL_VERIFICATION_SUCCESS"))
  /\ UNCHANGED <<users, refreshTokens, loginLogs, now, started, ticks, issued,
                 redeemed, loggedOut, mustBeRevoked, parentOf, storedPlain, seen>>

VerifyEmail(p) ==
  \/ \E vtok \in {emailVerifications[i].token : i \in DOMAIN emailVerifications}
                 \cup {UnknownVerificationToken} : VerifyEmailStart(p, vtok)
  \/ VerifyEmailUpdateUser(p)
  \/ VerifyEmailUpdateVerification(p)

\* ---------------------------------------------------------- changePassword
\* express.d.ts 49-130 (auth.required in front of the route): the response the
\* gate sends, or NoRes when it attaches the user and calls next()
\* authHeader is the Authorization header cut after its first seven
\* characters (startsWith('Bearer ') / substring(7)); user is the row that
\* findUnique returns for the verified token's userId, t the clock.
\* express.d.ts 55-84: the header and the token let the gate reach its read
reachesUserLookup(authHeader, t) ==
  /\ authHeader # NoHeader
  /\ authHeader.scheme = "Bearer "
  /\ jwtVerify(authHeader.credentials, "JWT_SECRET", t) = "ok"

\* what a request is marked with when the gate's read rejected
gateFacts(authHeader, t, ok) ==
  IF reachesUserLookup(authHeader, t) /\ ~ok THEN {"storeCallFailed"} ELSE {}

authMiddlewareNoActiveCheck(authHeader, user, t) ==
  IF authHeader = NoHeader \/ authHeader.scheme # "Bearer "
  THEN createErrorResponse(401, "Access token required", "AUTH_TOKEN_REQUIRED")
  ELSE IF jwtVerify(authHeader.credentials, "JWT_SECRET", t) = "TokenExpiredError"
       THEN createErrorResponse(401, "Access token expired", "AUTH_TOKEN_EXPIRED")
       ELSE IF jwtVerify(authHeader.credentials, "JWT_SECRET", t) # "ok"
            THEN createErrorResponse(401, "Invalid access token",
                                     "AUTH_TOKEN_INVALID")
            ELSE IF user = Rejected
                 THEN createErrorResponse(500, "Authentication error",
                                          "INTERNAL_ERROR")
            ELSE IF user = NoUser
                 THEN createErrorResponse(401, "User not found",
                                          "AUTH_USER_NOT_FOUND")
                 ELSE NoRes

authMiddleware(authHeader, user, t) ==
  IF authHeader = NoHeader \/ authHeader.scheme # "Bearer "
  THEN createErrorResponse(401, "Access token required", "AUTH_TOKEN_REQUIRED")
  ELSE IF jwtVerify(authHeader.credentials, "JWT_SECRET", t) = "TokenExpiredError"
       THEN createErrorResponse(401, "Access token expired", "AUTH_TOKEN_EXPIRED")
       ELSE IF jwtVerify(authHeader.credentials, "JWT_SECRET", t) # "ok"
            THEN createErrorResponse(401, "Invalid access token",
                                     "AUTH_TOKEN_INVALID")
            ELSE IF user = Rejected
                 THEN createErrorResponse(500, "Authentication error",
                                          "INTERNAL_ERROR")
            ELSE IF user = NoUser
                 THEN createErrorResponse(401, "User not found",
                                          "AUTH_USER_NOT_FOUND")
                 ELSE IF ~user.isActive
                      THEN createErrorResponse(403, "Account is deactivated",
                                               "AUTH_ACCOUNT_DEACTIVATED")
                      ELSE NoRes

\* auth.routes.ts 24-27, app.ts 590-595: the gate, then schema validation
ChangePasswordStart(p, bearer, currentPassword, newPassword) ==
  LET rq == [NoReq EXCEPT !.op = "changePassword", !.bearer = bearer,
                          !.authorization = Bearer(bearer),
                          !.password = currentPassword,
                          !.newPassword = newPassword]
  IN /\ Accept(p)
     /\ \E ok \in CallOutcomes :
        LET user == lookupUserById(bearer.userId, ok)
            gate == authMiddleware(Bearer(bearer), user, now)
            lc == [NoLoc EXCEPT !.user = user, !.at = now,
                     !.rowsAtStart = {i \in DOMAIN refreshTokens :
                                        refreshTokens[i].userId = user.id}]
        IN IF gate # NoRes
           THEN Reply(p, rq, [NoLoc EXCEPT !.at = now,
                        !.facts = gateFacts(Bearer(bearer), now, ok)], gate)
           ELSE IF ~changePasswordSchema(currentPassword, newPassword)
                THEN Reply(p, rq, lc, InternalError)
                ELSE Await(p, rq, lc, "cp_find")
     /\ UNCHANGED <<store, now, ticks, ghost>>

\* app.ts 595-620: re-read the user, compare the current password, hash
ChangePasswordFind(p) ==
  /\ pc[p] = "cp_find"
  /\ LET user == findUserById(loc[p].user.id)
         lc == [loc[p] EXCEPT !.facts = {"compared"},
                              !.plainAtRead = storedPlain[user.id],
                              !.usersBefore = users,
                              !.rowsBefore = refreshTokens]
     IN \E ok \in CallOutcomes :
        IF ~ok THEN Rejects(p, req[p], loc[p], InternalError)
        ELSE IF user = NoUser
        THEN Reply(p, req[p], loc[p], createErrorResponse(404,
                     "User not found", "AUTH_USER_NOT_FOUND"))
        ELSE IF ~bcryptCompare(req[p].password, user.password)
             THEN Reply(p, req[p], lc, createErrorResponse(400,
                          "Current password is incorrect",
                          "AUTH_INVALID_PASSWORD"))
             ELSE Await(p, req[p],
                        [loc[p] EXCEPT !.plainAtRead = storedPlain[user.id]],
                        "cp_updatePassword")
  /\ UNCHANGED <<store, now, started, ticks, ghost>>

\* app.ts 622-625: user.update password
ChangePasswordUpdate(p) ==
  /\ pc[p] = "cp_updatePassword"
  /\ \E ok \in CallOutcomes :
       IF ~ok
       THEN /\ Rejects(p, req[p], loc[p], InternalError)
            /\ UNCHANGED <<users, storedPlain>>
       ELSE /\ users' = [users EXCEPT ![loc[p].user.id].password =
                                        bcryptHash(req[p].newPassword)]
            /\ storedPlain' = [storedPlain EXCEPT
                                 ![loc[p].user.id] = req[p].newPassword]
            /\ Await(p, req[p], loc[p], "cp_revokeAll")
  /\ UNCHANGED <<refreshTokens, emailVerifications, loginLogs, now, started,
                 ticks, issued, redeemed, loggedOut, verifiedOk, mustBeRevoked,
                 parentOf,
                 seen>>

\* app.ts 627-639: refreshToken.updateMany for the user, then 200
ChangePasswordRevokeAll(p) ==
  /\ pc[p] = "cp_revokeAll"
  /\ \E ok \in CallOutcomes :
       IF ~ok
       THEN /\ Rejects(p, req[p], loc[p], InternalError)
            /\ UNCHANGED <<refreshTokens, mustBeRevoked>>
       ELSE /\ refreshTokens' = revokeAllOfUser(loc[p].user.id)
            /\ mustBeRevoked' = mustBeRevoked \cup loc[p].rowsAtStart
            /\ Reply(p, req[p], loc[p], createSuccessResponse(200, NoTokens,
                       "Password changed successfully. Please log in again.",
                       "PASSWORD_CHANGE_SUCCESS"))
  /\ UNCHANGED <<users, emailVerifications, loginLogs, now, started, ticks,
                 issued, redeemed, loggedOut, verifiedOk, parentOf, storedPlain, seen>>

ChangePassword(p) ==
  \/ \E b \in IssuedWith("JWT_SECRET"),
        cur \in Passwords, new \in Passwords :
       ChangePasswordStart(p, b, cur, new)
  \/ ChangePasswordFind(p)
  \/ ChangePasswordUpdate(p)
  \/ ChangePasswordRevokeAll(p)

\* ----------------------------------------------------------- updateProfile
usernameTakenNever(existingUsername, context) == FALSE

\* app.ts 547: the name belongs to a row other than the caller's
usernameTaken(existingUsername, context) ==
  existingUsername # NoUser /\ existingUsername.id # context.id

\* app.ts 537-540, 554: the columns updateData carries; an absent field is
\* undefined in the body
updateData(rq, setsUsername) ==
  (IF rq.firstName # NoName THEN {"firstName"} ELSE {})
    \cup (IF setsUsername THEN {"username"} ELSE {})

\* prisma.user.update({ where: { id }, data: updateData }) on one row
updated(row, rq, data) ==
  [row EXCEPT !.firstName = IF "firstName" \in data THEN rq.firstName ELSE @,
              !.username = IF "username" \in data THEN rq.username ELSE @]

\* auth.routes.ts 24-26, app.ts 532-542: the gate, then the body is read
UpdateProfileStart(p, bearer, firstName, username) ==
  LET rq == [NoReq EXCEPT !.op = "updateProfile", !.bearer = bearer,
                          !.authorization = Bearer(bearer),
                          !.firstName = firstName, !.username = username]
  IN /\ Accept(p)
     /\ \E ok \in CallOutcomes :
        LET user == lookupUserById(bearer.userId, ok)
            gate == authMiddleware(Bearer(bearer), user, now)
            lc == [NoLoc EXCEPT !.context = selectContext(user), !.at = now]
        IN IF gate # NoRes
           THEN Reply(p, rq, [NoLoc EXCEPT !.at = now,
                        !.facts = gateFacts(Bearer(bearer), now, ok)], gate)
           ELSE IF ~updateProfileSchema(firstName, username)
                THEN Reply(p, rq, lc, InternalError)
           ELSE IF username # NoUsername /\ username # user.username
                THEN Await(p, rq, lc, "up_findUsername")
                ELSE Await(p, rq, lc, "up_update")
     /\ UNCHANGED <<store, now, ticks, ghost>>

\* app.ts 543-555: findUnique by username, 409 if another row has it
UpdateProfileFindUsername(p) ==
  /\ pc[p] = "up_findUsername"
  /\ \E ok \in CallOutcomes :
       LET existingUsername == findUserByUsername(req[p].username)
           lc == [loc[p] EXCEPT !.usersAtLookup = users]
       IN IF ~ok THEN Rejects(p, req[p], loc[p], InternalError)
          ELSE IF usernameTaken(existingUsername, loc[p].context)
          THEN Reply(p, req[p], [lc EXCEPT !.usersBefore = users],
                     createErrorResponse(409, "Username already taken",
                                         "AUTH_USERNAME_TAKEN"))
          ELSE Await(p, req[p], [lc EXCEPT !.facts = {"username"}],
                     "up_update")
  /\ UNCHANGED <<store, now, started, ticks, ghost>>

\* app.ts 557-580: user.update with updateData, then 200; a username that
\* another row took meanwhile is thrown into the catch
UpdateProfileUpdate(p) ==
  /\ pc[p] = "up_update"
  /\ LET id == loc[p].context.id
         data == updateData(req[p], "username" \in loc[p].facts)
         lc == [loc[p] EXCEPT !.usersBefore = users]
     IN \E ok \in CallOutcomes :
        IF \/ ~ok
           \/ /\ "username" \in data
              /\ \E i \in DOMAIN users :
                   i # id /\ users[i].username = req[p].username
        THEN /\ Rejects(p, req[p], lc, InternalError)
             /\ UNCHANGED users
        ELSE /\ users' = [users EXCEPT ![id] = updated(@, req[p], data)]
             /\ Reply(p, req[p], lc,
                      withUser(createSuccessResponse(200, NoTokens,
                                 "Profile updated successfully",
                                 "PROFILE_UPDATE_SUCCESS"),
                               updateSelect(updated(users[id], req[p], data))))
  /\ UNCHANGED <<refreshTokens, emailVerifications, loginLogs, now, started,
                 ticks, ghost>>

\* ---------------------------------------------------------------- getProfile
\* auth.routes.ts 24-25, app.ts 516-530: the gate, then req.user is sent back
GetProfile(p, bearer) ==
  LET rq == [NoReq EXCEPT !.op = "getProfile", !.bearer = bearer,
                          !.authorization = Bearer(bearer)]
  IN /\ Accept(p)
     /\ \E ok \in CallOutcomes :
        LET user == lookupUserById(bearer.userId, ok)
            gate == authMiddleware(Bearer(bearer), user, now)
            lc == [NoLoc EXCEPT !.context = selectContext(user), !.at = now]
        IN IF gate # NoRes
           THEN Reply(p, rq, [NoLoc EXCEPT !.at = now,
                        !.facts = gateFacts(Bearer(bearer), now, ok)], gate)
           ELSE Reply(p, rq, lc,
                      withUser(createSuccessResponse(200, NoTokens,
                                 "Profile retrieved successfully",
                                 "PROFILE_SUCCESS"),
                               lc.context))
     /\ UNCHANGED <<store, now, ticks, ghost>>

UpdateProfile(p) ==
  \/ \E b \in IssuedWith("JWT_SECRET"), f \in FirstNames, n \in ProfileUsernames :
       UpdateProfileStart(p, b, f, n)
  \/ UpdateProfileFindUsername(p)
  \/ UpdateProfileUpdate(p)

\* -------------------------------------------------------------- middleware
\* what a middleware did with a request: the response it sent (NoRes when it
\* sent none), the req.user it left, and how often it called next()
Outcome(res, context, nextCalls) ==
  [res |-> res, context |-> context, nextCalls |-> nextCalls]

authRequiredWithSession(authHeader, user, t) ==
  LET res == authMiddleware(authHeader, user, t)
  IN IF res # NoRes THEN Outcome(res, NoContext, 0)
     ELSE IF \A i \in DOMAIN refreshTokens :
               refreshTokens[i].userId = user.id => refreshTokens[i].isRevoked
          THEN Outcome(createErrorResponse(401, "Invalid access token",
                                           "AUTH_TOKEN_INVALID"), NoContext, 0)
          ELSE Outcome(NoRes, selectContext(user), 1)

\* express.d.ts 49-130 as a whole: next() is called on the last line only
authRequired(authHeader, user, t) ==
  LET res == authMiddleware(authHeader, user, t)
  IN IF res = NoRes THEN Outcome(NoRes, selectContext(user), 1)
     ELSE Outcome(res, NoContext, 0)

optionalAuthMiddlewareAnyUser(authHeader, user, t) ==
  IF authHeader = NoHeader \/ authHeader.scheme # "Bearer "
  THEN Outcome(NoRes, NoContext, 1)
  ELSE IF jwtVerify(authHeader.credentials, "JWT_SECRET", t) # "ok"
       THEN Outcome(NoRes, NoContext, 1)
       ELSE IF user = Rejected
            THEN Outcome(NoRes, NoContext, 1)
       ELSE IF user # NoUser
            THEN Outcome(NoRes, selectContext(user), 1)
            ELSE Outcome(NoRes, NoContext, 1)

\* express.d.ts 132-183
optionalAuthMiddleware(authHeader, user, t) ==
  IF authHeader = NoHeader \/ authHeader.scheme # "Bearer "
  THEN Outcome(NoRes, NoContext, 1)
  ELSE IF jwtVerify(authHeader.credentials, "JWT_SECRET", t) # "ok"
       THEN Outcome(NoRes, NoContext, 1)
       ELSE IF user = Rejected
            THEN Outcome(NoRes, NoContext, 1)
       ELSE IF user # NoUser /\ user.isActive
            THEN Outcome(NoRes, selectContext(user), 1)
            ELSE Outcome(NoRes, NoContext, 1)

\* express.d.ts 186-208; roles is allowedRoles after the Array.isArray
\* normalisation of line 196
requireRole(roles, context) ==
  IF context = NoContext
  THEN Outcome(createErrorResponse(401, "Authentication required",
                                   "AUTH_TOKEN_REQUIRED"), context, 0)
  ELSE IF context.role \notin roles
       THEN Outcome(createErrorResponse(403, "Insufficient permissions",
                                        "AUTH_INSUFFICIENT_PERMISSIONS"),
                    context, 0)
       ELSE Outcome(NoRes, context, 1)

\* express.d.ts 638-639
requireAdmin == {"ADMIN"}

requireModeratorOnly == {"MODERATOR"}

requireModerator == {"ADMIN", "MODERATOR"}

\* the role gates a route can be put behind, by name
RoleGates == {<<"requireAdmin", requireAdmin>>,
              <<"requireModerator", requireModerator>>,
              <<"requireRole", {"USER"}>>}

requireEmailVerificationOfAnyone(context) ==
  IF context = NoContext
  THEN Outcome(createErrorResponse(401, "Authentication required",
                                   "AUTH_TOKEN_REQUIRED"), context, 0)
  ELSE Outcome(NoRes, context, 1)

\* express.d.ts 211-229
requireEmailVerification(context) ==
  IF context = NoContext
  THEN Outcome(createErrorResponse(401, "Authentication required",
                                   "AUTH_TOKEN_REQUIRED"), context, 0)
  ELSE IF ~context.isEmailVerified
       THEN Outcome(createErrorResponse(403, "Email verification required",
                                        "AUTH_EMAIL_NOT_VERIFIED"), context, 0)
       ELSE Outcome(NoRes, context, 1)

\* a request through one middleware: the store read of the gates and the code
\* after it are one step
Middleware(p, rq, out, facts) ==
  /\ Accept(p)
  /\ Reply(p, rq, [NoLoc EXCEPT !.at = now, !.context = out.context,
                               !.nextCalls = out.nextCalls, !.facts = facts],
           out.res)
  /\ UNCHANGED <<store, now, ticks, ghost>>

Gate(p, authHeader) ==
  \E ok \in CallOutcomes :
    Middleware(p, [NoReq EXCEPT !.op = "auth.required",
                                !.authorization = authHeader],
               authRequired(authHeader,
                 lookupUserById(authHeader.credentials.userId, ok), now),
               gateFacts(authHeader, now, ok))

OptionalGate(p, authHeader) ==
  \E ok \in CallOutcomes :
    Middleware(p, [NoReq EXCEPT !.op = "auth.optional",
                                !.authorization = authHeader],
               optionalAuthMiddleware(authHeader,
                 lookupUserById(authHeader.credentials.userId, ok), now),
               gateFacts(authHeader, now, ok))

RoleGate(p, name, roles, context) ==
  Middleware(p, [NoReq EXCEPT !.op = name, !.allowedRoles = roles],
             requireRole(roles, context), {})

VerifiedGate(p, context) ==
  Middleware(p, [NoReq EXCEPT !.op = "requireEmailVerification"],
             requireEmailVerification(context), {})

\* a caller of JwtService verifies a token
ServiceVerify(p, kind, tok) ==
  /\ Accept(p)
  /\ Reply(p, [NoReq EXCEPT !.op = "verify", !.verifier = kind, !.token = tok],
           [NoLoc EXCEPT !.at = now,
                         !.verdict = JwtServiceVerify(kind, tok, now)], NoRes)
  /\ UNCHANGED <<store, now, ticks, ghost>>

\* The active flag is only read by this code (app.ts 281, express.d.ts 113):
\* it is switched in the store from outside.
AdminSetActive(id, flag) ==
  /\ id \in DOMAIN users
  /\ users[id].isActive # flag
  /\ users' = [users EXCEPT ![id].isActive = flag]
  /\ ev' = NoEv
  /\ UNCHANGED <<refreshTokens, emailVerifications, loginLogs, now, pc, req,
                 loc, started, ticks, ghost, world>>

\* ---------------------------------------------------------- specifications
\* Account life cycle from an empty store: register and verifyEmail.
NextAccount ==
  \/ Tick
  \/ \E p \in Procs : Register(p)
  \/ \E p \in Procs : VerifyEmail(p)

Spec == Init /\ [][NextAccount]_vars

\* The account life cycle of a second registration and of verification: the
\* store as register(a@x, PwOne) at second 0 leaves it.
AccountSeed ==
  /\ users = <<[id |-> 1, email |-> EmailLower, password |-> bcryptHash(PwOne),
                firstName |-> NoName, username |-> NoUsername, role |-> DefaultRole,
                isActive |-> TRUE,
                isEmailVerified |-> FALSE, lastLoginAt |-> NoTime]>>
  /\ refreshTokens = <<>>
  /\ emailVerifications = <<[id |-> 1, userId |-> 1, token |-> 1,
                             email |-> EmailLower, status |-> "PENDING",
                             expiresAt |-> TWENTY_FOUR_HOURS]>>
  /\ loginLogs = <<[userId |-> 1, loginType |-> "EMAIL", isSuccess |-> FALSE,
                    failReason |-> "REGISTRATION_PENDING_VERIFICATION"]>>
  /\ now = 0
  /\ pc = [p \in Procs |-> "idle"]
  /\ req = [p \in Procs |-> NoReq]
  /\ loc = [p \in Procs |-> NoLoc]
  /\ ev = NoEv
  /\ started = 0
  /\ ticks = 0
  /\ issued = {}
  /\ redeemed = {}
  /\ loggedOut = {}
  /\ verifiedOk = {}
  /\ mustBeRevoked = {}
  /\ parentOf = <<>>
  /\ storedPlain = <<PwOne>>
  /\ seen = [notFound |-> {}, wrongPassword |-> {}]
  /\ outbox = <<>>

InitAccount == AccountSeed /\ storeFaults = FALSE

SpecAccount == InitAccount /\ [][NextAccount]_vars

\* Sessions of a registered user: the store as register(a@x, PwOne) followed
\* by login(a@x, PwOne), both within second 0, leave it, one second later.
SeedTokens == generateTokens(1, 0)

InitSession ==
  /\ users = <<[id |-> 1, email |-> EmailLower, password |-> bcryptHash(PwOne),
                firstName |-> NoName, username |-> NoUsername, role |-> DefaultRole,
                isActive |-> TRUE,
                isEmailVerified |-> FALSE, lastLoginAt |-> 0]>>
  /\ refreshTokens = <<[id |-> 1, userId |-> 1,
                        token |-> SeedTokens.refreshToken,
                        isRevoked |-> FALSE, expiresAt |-> SEVEN_DAYS]>>
  /\ emailVerifications = <<[id |-> 1, userId |-> 1, token |-> 1,
                             email |-> EmailLower, status |-> "PENDING",
                             expiresAt |-> TWENTY_FOUR_HOURS]>>
  /\ loginLogs = <<[userId |-> 1, loginType |-> "EMAIL", isSuccess |-> FALSE,
                    failReason |-> "REGISTRATION_PENDING_VERIFICATION"],
                   [userId |-> 1, loginType |-> "EMAIL", isSuccess |-> TRUE,
                    failReason |-> ""]>>
  /\ now = 1
  /\ pc = [p \in Procs |-> "idle"]
  /\ req = [p \in Procs |-> NoReq]
  /\ loc = [p \in Procs |-> NoLoc]
  /\ ev = NoEv
  /\ started = 0
  /\ ticks = 0
  /\ issued = {SeedTokens.accessToken, SeedTokens.refreshToken}
  /\ redeemed = {}
  /\ loggedOut = {}
  /\ verifiedOk = {}
  /\ mustBeRevoked = {}
  /\ parentOf = <<NoToken>>
  /\ storedPlain = <<PwOne>>
  /\ seen = [notFound |-> {}, wrongPassword |-> {}]
  /\ storeFaults = FALSE
  /\ outbox = <<>>

NextSession ==
  \/ Tick
  \/ \E p \in Procs : Login(p)
  \/ \E p \in Procs : Refresh(p)
  \/ \E p \in Procs :
       \E tok \in IssuedWith("JWT_REFRESH_SECRET") \cup {NoToken, GarbageToken} :
         Logout(p, tok)
  \/ \E p \in Procs : ChangePassword(p)

SpecSession == InitSession /\ [][NextSession]_vars

\* The request gate and the token service: three accounts of the three
\* roles, the first one as register and login within second 0 leave it, one
\* second later.  The tokens presented are what the code signs for user 1 at
\* second 0, a token of an id without a row, and one of a foreign signature.
EmailAdmin == <<"r", "@", "x">>
EmailModerator == <<"m", "@", "x">>

GateTokens ==
  {SeedTokens.accessToken, SeedTokens.refreshToken,
   generateAccessToken(1, 0), generateRefreshToken(1, 0),
   generatePasswordResetToken(1, 0), generateEmailVerifyToken(1, 0),
   jwtSign(9, "JWT_SECRET", 0), GarbageToken}

GateHeaders ==
  {NoHeader, Basic(SeedTokens.accessToken)} \cup {Bearer(tok) : tok \in GateTokens}

Contexts == {NoContext} \cup {selectContext(users[i]) : i \in DOMAIN users}

GateSeed ==
  /\ users = <<[id |-> 1, email |-> EmailLower, password |-> bcryptHash(PwOne),
                firstName |-> NoName, username |-> NoUsername, role |-> "USER", isActive |-> TRUE,
                isEmailVerified |-> FALSE, lastLoginAt |-> 0],
               [id |-> 2, email |-> EmailAdmin, password |-> bcryptHash(PwOne),
                firstName |-> NoName, username |-> NoUsername, role |-> "ADMIN", isActive |-> TRUE,
                isEmailVerified |-> TRUE, lastLoginAt |-> NoTime],
               [id |-> 3, email |-> EmailModerator,
                password |-> bcryptHash(PwOne),
                firstName |-> NoName, username |-> NoUsername, role |-> "MODERATOR", isActive |-> TRUE,
                isEmailVerified |-> TRUE, lastLoginAt |-> NoTime]>>
  /\ refreshTokens = <<[id |-> 1, userId |-> 1,
                        token |-> SeedTokens.refreshToken,
                        isRevoked |-> FALSE, expiresAt |-> SEVEN_DAYS]>>
  /\ emailVerifications = <<[id |-> 1, userId |-> 1, token |-> 1,
                             email |-> EmailLower, status |-> "PENDING",
                             expiresAt |-> TWENTY_FOUR_HOURS]>>
  /\ loginLogs = <<[userId |-> 1, loginType |-> "EMAIL", isSuccess |-> FALSE,
                    failReason |-> "REGISTRATION_PENDING_VERIFICATION"],
                   [userId |-> 1, loginType |-> "EMAIL", isSuccess |-> TRUE,
                    failReason |-> ""]>>
  /\ now = 1
  /\ pc = [p \in Procs |-> "idle"]
  /\ req = [p \in Procs |-> NoReq]
  /\ loc = [p \in Procs |-> NoLoc]
  /\ ev = NoEv
  /\ started = 0
  /\ ticks = 0
  /\ issued = {SeedTokens.accessToken, SeedTokens.refreshToken}
  /\ redeemed = {}
  /\ loggedOut = {}
  /\ verifiedOk = {}
  /\ mustBeRevoked = {}
  /\ parentOf = <<NoToken>>
  /\ storedPlain = <<PwOne, PwOne, PwOne>>
  /\ seen = [notFound |-> {}, wrongPassword |-> {}]
  /\ outbox = <<>>

InitGate == GateSeed /\ storeFaults = FALSE

NextGate ==
  \/ Tick
  \/ \E flag \in BOOLEAN : AdminSetActive(1, flag)
  \/ \E p \in Procs : \E h \in GateHeaders : Gate(p, h)
  \/ \E p \in Procs : \E h \in GateHeaders : OptionalGate(p, h)
  \/ \E p \in Procs : \E g \in RoleGates, c \in Contexts :
       RoleGate(p, g[1], g[2], c)
  \/ \E p \in Procs : \E c \in Contexts : VerifiedGate(p, c)
  \/ \E p \in Procs : \E kind \in Verifiers, tok \in GateTokens :
       ServiceVerify(p, kind, tok)
  \/ \E p \in Procs : \E tok \in GateTokens : RefreshStart(p, tok)
  \/ \E p \in Procs : RefreshRevoke(p) \/ RefreshCreate(p)

SpecGate == InitGate /\ [][NextGate]_vars

\* Profile updates of two registered users who hold a username each: the
\* store as two registrations and logins within second 0 leave it, with a
\* first name given at registration.
InitProfile ==
  /\ users = <<[id |-> 1, email |-> EmailLower, password |-> bcryptHash(PwOne),
                firstName |-> "Ann", username |-> UsernameOne,
                role |-> DefaultRole, isActive |-> TRUE,
                isEmailVerified |-> FALSE, lastLoginAt |-> 0],
               [id |-> 2, email |-> EmailOther, password |-> bcryptHash(PwOne),
                firstName |-> "Ann", username |-> UsernameTwo,
                role |-> DefaultRole, isActive |-> TRUE,
                isEmailVerified |-> FALSE, lastLoginAt |-> 0]>>
  /\ refreshTokens =
       <<[id |-> 1, userId |-> 1, token |-> generateTokens(1, 0).refreshToken,
          isRevoked |-> FALSE, expiresAt |-> SEVEN_DAYS],
         [id |-> 2, userId |-> 2, token |-> generateTokens(2, 0).refreshToken,
          isRevoked |-> FALSE, expiresAt |-> SEVEN_DAYS]>>
  /\ emailVerifications =
       <<[id |-> 1, userId |-> 1, token |-> 1, email |-> EmailLower,
          status |-> "PENDING", expiresAt |-> TWENTY_FOUR_HOURS],
         [id |-> 2, userId |-> 2, token |-> 2, email |-> EmailOther,
          status |-> "PENDING", expiresAt |-> TWENTY_FOUR_HOURS]>>
  /\ loginLogs = <<LoginLog(1, FALSE, "REGISTRATION_PENDING_VERIFICATION"),
                   LoginLog(2, FALSE, "REGISTRATION_PENDING_VERIFICATION"),
                   LoginLog(1, TRUE, ""), LoginLog(2, TRUE, "")>>
  /\ now = 1
  /\ pc = [p \in Procs |-> "idle"]
  /\ req = [p \in Procs |-> NoReq]
  /\ loc = [p \in Procs |-> NoLoc]
  /\ ev = NoEv
  /\ started = 0
  /\ ticks = 0
  /\ issued = {generateTokens(1, 0).accessToken, generateTokens(1, 0).refreshToken,
               generateTokens(2, 0).accessToken, generateTokens(2, 0).refreshToken}
  /\ redeemed = {}
  /\ loggedOut = {}
  /\ verifiedOk = {}
  /\ mustBeRevoked = {}
  /\ parentOf = <<NoToken, NoToken>>
  /\ storedPlain = <<PwOne, PwOne>>
  /\ seen = [notFound |-> {}, wrongPassword |-> {}]
  /\ storeFaults = FALSE
  /\ outbox = <<>>

\* updateProfile reads no clock and the gate's tokens carry no expiry
NextProfile == \E p \in Procs : UpdateProfile(p)

SpecProfile == InitProfile /\ [][NextProfile]_vars

\* The audit trail while calls to the store may reject: registrations and
\* logins on the store that register(a@x, PwOne) at second 0 leaves.
InitAudit == AccountSeed /\ storeFaults = TRUE

\* The audit writes read no clock.
NextAudit ==
  \/ \E p \in Procs : Register(p)
  \/ \E p \in Procs : Login(p)

SpecAudit == InitAudit /\ [][NextAudit]_vars

\* The operations on registered accounts while calls to the store may
\* reject, on the store of the three accounts (register under failing calls
\* is part of SpecAudit).
InitFaults == GateSeed /\ storeFaults = TRUE

FaultHeaders ==
  {NoHeader, Bearer(SeedTokens.accessToken), Bearer(GarbageToken)}

NextFaults ==
  \/ \E p \in Procs : \E h \in FaultHeaders : Gate(p, h)
  \/ \E p \in Procs : \E h \in FaultHeaders : OptionalGate(p, h)
  \/ \E p \in Procs : Login(p)
  \/ \E p \in Procs : Refresh(p)
  \/ \E p \in Procs :
       \E tok \in IssuedWith("JWT_REFRESH_SECRET") \cup {NoToken} :
         Logout(p, tok)
  \/ \E p \in Procs : VerifyEmail(p)
  \/ \E p \in Procs : UpdateProfile(p)
  \/ \E p \in Procs : ChangePassword(p)

SpecFaults == InitFaults /\ [][NextFaults]_vars

\* What the handlers send back about a user: registrations, logins and the
\* profile routes on the store of InitSession.  None of them reads the clock
\* for what it returns.
NextPublic ==
  \/ \E p \in Procs : Register(p)
  \/ \E p \in Procs : Login(p)
  \/ \E p \in Procs : \E b \in IssuedWith("JWT_SECRET") : GetProfile(p, b)
  \/ \E p \in Procs : UpdateProfile(p)
  \/ \E p \in Procs : \E b \in IssuedWith("JWT_SECRET") : Gate(p, Bearer(b))

SpecPublic == InitSession /\ [][NextPublic]_vars

\* Requests whose body does not pass the schema of its route.
InvalidBody(p) ==
  \/ RegisterStart(p, EmailMalformed, PwOne, NoUsername)
  \/ RegisterStart(p, EmailOther, PwOne, UsernameShort)
  \/ LoginStart(p, EmailMalformed, PwOne)
  \/ RefreshStart(p, NoToken)
  \/ \E b \in IssuedWith("JWT_SECRET") :
       UpdateProfileStart(p, b, NoName, UsernameShort)

\* Every route that validates a body, on the store of InitSession.
NextBodies ==
  \/ \E p \in Procs : InvalidBody(p)
  \/ \E p \in Procs : Register(p)
  \/ \E p \in Procs : Login(p)
  \/ \E p \in Procs : Refresh(p)
  \/ \E p \in Procs : UpdateProfile(p)
  \/ \E p \in Procs : ChangePassword(p)

SpecBodies == InitSession /\ [][NextBodies]_vars

\* Login while the account is switched off and on from outside.
NextLogin ==
  \/ Tick
  \/ \E flag \in BOOLEAN : AdminSetActive(1, flag)
  \/ \E p \in Procs : Login(p)

SpecLogin == InitSession /\ [][NextLogin]_vars

\* ------------------------------------------------------------------ claims
InRefreshWrites(p) == pc[p] \in {"rf_revoke", "rf_create"}

RowUsable(row, t) == row # NoRow /\ ~row.isRevoked /\ ~(row.expiresAt < t)

\* C1: once refresh(t) has answered 200, every refresh(t) that starts later
\* is answered 401 without tokens and never reaches the rotation writes, also
\* while t's row is still before its expiry.
C1_RedeemedTokenRejected ==
  /\ \A p \in Procs : InRefreshWrites(p) => "afterRedeem" \notin loc[p].facts
  /\ (ev.req.op = "refresh" /\ "afterRedeem" \in ev.loc.facts)
       => (ev.res.status = 401 /\ ev.res.tokens = NoTokens)

C1_Witness ==
  /\ ev.req.op = "refresh"
  /\ "afterRedeem" \in ev.loc.facts
  /\ ev.res.status = 401
  /\ ~(ev.loc.tokenRecord.expiresAt < ev.loc.at)

\* C2: at most one non-revoked RefreshToken row is ever derived from one
\* presented token string, whatever the interleaving of the refresh requests.
C2_AtMostOneSuccessor ==
  \A i, j \in DOMAIN refreshTokens :
    (/\ parentOf[i] # NoToken
     /\ parentOf[i] = parentOf[j]
     /\ ~refreshTokens[i].isRevoked
     /\ ~refreshTokens[j].isRevoked) => i = j

\* C3: refresh passes its check, and answers 200, only for a token whose row
\* was found, not revoked and not past its expiry at the time of the check.
C3_RefreshOnlyUsableRow ==
  /\ \A p \in Procs :
       InRefreshWrites(p) => RowUsable(loc[p].tokenRecord, loc[p].at)
  /\ (ev.req.op = "refresh" /\ ev.res.status = 200)
       => RowUsable(ev.loc.tokenRecord, ev.loc.at)

C3_Witness ==
  /\ ev.req.op = "refresh"
  /\ ev.res.status = 401
  /\ ev.loc.tokenRecord # NoRow
  /\ ~ev.loc.tokenRecord.isRevoked
  /\ ev.loc.tokenRecord.expiresAt < ev.loc.at

\* C4: refresh(t) answers 200 with a new pair whenever t came from a login and
\* its row is stored, not revoked and not expired, also in the second in
\* which t was signed.
C4_LoginTokenRefreshes ==
  (/\ ev.req.op = "refresh"
   /\ RowUsable(ev.loc.tokenRecord, ev.loc.at)
   /\ parentOf[ev.loc.tokenRecord.id] = NoToken)
    => (ev.res.status = 200 /\ ev.res.tokens # NoTokens)

\* C5: a refresh presenting the token a successful refresh returned, with its
\* row stored, not revoked and not expired, answers 200, and the row it
\* leaves belongs to the same user and is not revoked.
C5_RotatedTokenRefreshes ==
  (/\ ev.req.op = "refresh"
   /\ RowUsable(ev.loc.tokenRecord, ev.loc.at)
   /\ parentOf[ev.loc.tokenRecord.id] # NoToken)
    => /\ ev.res.status = 200
       /\ \E i \in DOMAIN refreshTokens :
            /\ refreshTokens[i].token = ev.res.tokens.refreshToken
            /\ refreshTokens[i].userId = ev.loc.tokenRecord.userId
            /\ ~refreshTokens[i].isRevoked

\* C6: after changePassword answered 200 for a user, every RefreshToken row
\* of that user that existed when the request started is revoked and stays
\* so, and a refresh that starts later with such a token is answered 401.
C6_PasswordChangeRevokes ==
  /\ \A i \in mustBeRevoked : refreshTokens[i].isRevoked
  /\ \A p \in Procs :
       InRefreshWrites(p) => "afterPasswordChange" \notin loc[p].facts
  /\ (ev.req.op = "refresh" /\ "afterPasswordChange" \in ev.loc.facts)
       => ev.res.status = 401

C6_Witness ==
  /\ ev.req.op = "refresh"
  /\ "afterPasswordChange" \in ev.loc.facts
  /\ ev.res.status = 401
  /\ \E i \in mustBeRevoked : refreshTokens[i].token = ev.req.token

\* C7: login with an unknown email and login with a wrong password for an
\* active user give the same status, code and message.
C7_LoginFailuresAlike ==
  \A a \in seen.notFound, b \in seen.wrongPassword : a = b

C7_Witness == seen.notFound # {} /\ seen.wrongPassword # {}

\* C8: a register whose lower-cased email is held by another user is answered
\* 409, and no two User rows share an email, in every interleaving.
C8_DuplicateEmailConflict ==
  /\ \A i, j \in DOMAIN users : users[i].email = users[j].email => i = j
  /\ (/\ ev.req.op = "register"
      /\ \E i \in DOMAIN users :
           users[i].email = toLowerCase(ev.req.email) /\ i # ev.loc.user.id)
       => ev.res.status = 409

\* C9: verifyEmail with a stored, unexpired token answers 200; once it has
\* answered success the user is verified and the row VERIFIED, and a call
\* that starts later answers 200 without reaching a store write.
C9_VerifyEmailIdempotent ==
  /\ (/\ ev.req.op = "verifyEmail"
      /\ ev.loc.verification # NoVerification
      /\ ~(ev.loc.verification.expiresAt < ev.loc.at))
       => ev.res.status = 200
  /\ \A i \in DOMAIN emailVerifications :
       emailVerifications[i].token \in verifiedOk
         => /\ emailVerifications[i].status = "VERIFIED"
            /\ users[emailVerifications[i].userId].isEmailVerified
  /\ \A p \in Procs :
       pc[p] \in {"ve_updateUser", "ve_updateVerification"}
         => "afterVerify" \notin loc[p].facts

C9_Witness ==
  /\ ev.req.op = "verifyEmail"
  /\ "afterVerify" \in ev.loc.facts
  /\ ev.res.status = 200
  /\ ev.res.code = "EMAIL_ALREADY_VERIFIED"

\* C10: login of a registered active user answers 200 if and only if the
\* password given is the one most recently stored for that user.
C10_LoginIffCurrentPassword ==
  (ev.req.op = "login" /\ ev.loc.user # NoUser /\ ev.loc.user.isActive)
    => ((ev.res.status = 200) <=> (ev.req.password = ev.loc.plainAtRead))

\* C11: an access token that login or refresh issued is no longer accepted
\* once FIFTEEN_MINUTES have passed since it was signed: a request to a
\* protected route that presents it then is answered AUTH_TOKEN_EXPIRED by
\* the gate and never reaches the handler.
C11_AccessTokenExpires ==
  /\ \A p \in Procs :
       (pc[p] = "cp_find" /\ req[p].bearer \in issued)
         => loc[p].at < req[p].bearer.iat + FIFTEEN_MINUTES
  /\ (/\ ev.req.op = "changePassword"
      /\ ev.req.bearer \in issued
      /\ ev.loc.at >= ev.req.bearer.iat + FIFTEEN_MINUTES)
       => ev.res.code = "AUTH_TOKEN_EXPIRED"

\* what the claims call a token that verifies with the access secret at the
\* time of the request
VerifiesAsAccess(tok, t) ==
  tok.secret = "JWT_SECRET" /\ (tok.exp = NoExp \/ t < tok.exp)

PurposeTypes == {"email_verify", "password_reset"}

\* C12: a token of one purpose is rejected when presented for another:
\* verifyAccessToken and the gate reject email-verify and password-reset
\* tokens, and each purpose verifier rejects the other purpose's tokens and
\* access tokens.
C12_PurposeBound ==
  /\ (/\ ev.req.op = "verify"
      /\ ev.req.verifier = "access"
      /\ ev.req.token.type \in PurposeTypes)
       => ~ev.loc.verdict.accepted
  /\ (/\ ev.req.op = "verify"
      /\ ev.req.verifier \in PurposeTypes
      /\ ev.req.token.type # ev.req.verifier)
       => ~ev.loc.verdict.accepted
  /\ (/\ ev.req.op = "auth.required"
      /\ ev.req.authorization.credentials.type \in PurposeTypes)
       => (ev.loc.nextCalls = 0 /\ ev.res.status = 401)

\* C13: the two secrets being distinct, refresh and verifyRefreshToken accept
\* no token signed with the access secret, and the gate and
\* verifyAccessToken accept no token signed with the refresh secret.
C13_SecretsSeparate ==
  /\ getAccessSecret # getRefreshSecret
  /\ (/\ ev.req.op = "verify" /\ ev.req.verifier = "refresh"
      /\ ev.req.token.secret = getAccessSecret)
       => ~ev.loc.verdict.accepted
  /\ (/\ ev.req.op = "verify" /\ ev.req.verifier = "access"
      /\ ev.req.token.secret = getRefreshSecret)
       => ~ev.loc.verdict.accepted
  /\ (/\ ev.req.op = "auth.required"
      /\ ev.req.authorization.credentials.secret = getRefreshSecret)
       => (ev.loc.nextCalls = 0 /\ ev.res.status = 401)
  /\ (ev.req.op = "refresh" /\ ev.req.token.secret = getAccessSecret)
       => (ev.res.status = 401 /\ ev.res.tokens = NoTokens)
  /\ \A p \in Procs :
       InRefreshWrites(p) => req[p].token.secret # getAccessSecret

C13_Witness ==
  /\ ev.req.op = "refresh"
  /\ ev.req.token \in issued
  /\ VerifiesAsAccess(ev.req.token, ev.loc.at)
  /\ ev.res.status = 401

\* the row the store holds for the user a token names
UserOf(tok) == IF tok.userId \in DOMAIN users THEN users[tok.userId] ELSE NoUser

\* C14: authMiddleware answers, in this order, AUTH_TOKEN_REQUIRED without a
\* Bearer header, AUTH_TOKEN_EXPIRED or AUTH_TOKEN_INVALID for a token that
\* does not verify with the access secret, AUTH_USER_NOT_FOUND when the store
\* has no row for the user id, AUTH_ACCOUNT_DEACTIVATED when the row is not
\* active; only otherwise it attaches the row and calls next, once.
C14_GateOrder ==
  (ev.req.op = "auth.required") =>
    LET h == ev.req.authorization
        tok == h.credentials
        u == UserOf(tok)
    IN IF h = NoHeader \/ h.scheme # "Bearer "
       THEN /\ ev.res.status = 401 /\ ev.res.code = "AUTH_TOKEN_REQUIRED"
            /\ ev.loc.nextCalls = 0
       ELSE IF ~VerifiesAsAccess(tok, ev.loc.at)
       THEN /\ ev.res.status = 401
            /\ ev.res.code = IF tok.secret = "JWT_SECRET"
                              THEN "AUTH_TOKEN_EXPIRED" ELSE "AUTH_TOKEN_INVALID"
            /\ ev.loc.nextCalls = 0
       ELSE IF u = NoUser
       THEN /\ ev.res.status = 401 /\ ev.res.code = "AUTH_USER_NOT_FOUND"
            /\ ev.loc.nextCalls = 0
       ELSE IF ~u.isActive
       THEN /\ ev.res.status = 403 /\ ev.res.code = "AUTH_ACCOUNT_DEACTIVATED"
            /\ ev.loc.nextCalls = 0
       ELSE /\ ev.res = NoRes
            /\ ev.loc.nextCalls = 1
            /\ ev.loc.context = selectContext(u)

C14_Witness ==
  /\ ev.req.op = "auth.required"
  /\ ev.req.authorization.credentials \in issued
  /\ ev.res.code = "AUTH_ACCOUNT_DEACTIVATED"
  /\ ev.loc.nextCalls = 0

\* C15: optionalAuthMiddleware calls next exactly once and sends no response
\* on every request; it attaches a user exactly when the Bearer token
\* verifies with the access secret and the user's row exists and is active.
C15_OptionalGate ==
  (ev.req.op = "auth.optional") =>
    LET h == ev.req.authorization
        u == UserOf(h.credentials)
        admitted == /\ h.scheme = "Bearer "
                    /\ VerifiesAsAccess(h.credentials, ev.loc.at)
                    /\ u # NoUser
                    /\ u.isActive
    IN /\ ev.loc.nextCalls = 1
       /\ ev.res = NoRes
       /\ ev.loc.context = IF admitted THEN selectContext(u) ELSE NoContext

C15_Witness ==
  /\ ev.req.op = "auth.optional"
  /\ VerifiesAsAccess(ev.req.authorization.credentials, ev.loc.at)
  /\ UserOf(ev.req.authorization.credentials) # NoUser
  /\ ~UserOf(ev.req.authorization.credentials).isActive
  /\ ev.loc.nextCalls = 1

\* C16: a role gate calls next exactly when a user is attached whose role is
\* allowed; an attached user of another role gets 403
\* AUTH_INSUFFICIENT_PERMISSIONS and no next.  requireAdmin admits ADMIN
\* only, requireModerator exactly ADMIN and MODERATOR.
C16_RoleGate ==
  (ev.req.op \in {"requireAdmin", "requireModerator", "requireRole"}) =>
    LET c == ev.loc.context
        allowed == CASE ev.req.op = "requireAdmin" -> {"ADMIN"}
                     [] ev.req.op = "requireModerator" -> {"ADMIN", "MODERATOR"}
                     [] OTHER -> ev.req.allowedRoles
    IN /\ ev.loc.nextCalls = IF c # NoContext /\ c.role \in allowed THEN 1 ELSE 0
       /\ (c # NoContext /\ c.role \notin allowed)
            => /\ ev.res.status = 403
               /\ ev.res.code = "AUTH_INSUFFICIENT_PERMISSIONS"

C16_Witness ==
  /\ ev.req.op = "requireModerator"
  /\ ev.loc.context.role = "ADMIN"
  /\ ev.loc.nextCalls = 1

\* C17: requireEmailVerification calls next exactly when a user is attached
\* whose isEmailVerified is true; an attached user that is not verified gets
\* AUTH_EMAIL_NOT_VERIFIED and no next.
C17_VerifiedGate ==
  (ev.req.op = "requireEmailVerification") =>
    LET c == ev.loc.context
    IN /\ ev.loc.nextCalls = IF c # NoContext /\ c.isEmailVerified THEN 1 ELSE 0
       /\ (c # NoContext /\ ~c.isEmailVerified)
            => /\ ev.res.status = 403
               /\ ev.res.code = "AUTH_EMAIL_NOT_VERIFIED"

C17_Witness ==
  /\ ev.req.op = "requireEmailVerification"
  /\ ev.loc.context # NoContext
  /\ ~ev.loc.context.isEmailVerified
  /\ ev.res.code = "AUTH_EMAIL_NOT_VERIFIED"

\* C18: logout answers 200 whatever it is given; once logout(t) has answered,
\* every row with token string t is revoked and stays so, and a refresh(t)
\* that starts later is answered 401; a repeated logout(t) leaves the
\* RefreshToken table as it found it.
C18_LogoutRevokes ==
  /\ (ev.req.op = "logout") =>
        /\ ev.res.status = 200
        /\ ("afterLogout" \in ev.loc.facts) => refreshTokens = ev.loc.rowsBefore
  /\ \A i \in DOMAIN refreshTokens :
       refreshTokens[i].token \in loggedOut => refreshTokens[i].isRevoked
  /\ \A p \in Procs : InRefreshWrites(p) => "afterLogout" \notin loc[p].facts
  /\ (ev.req.op = "refresh" /\ "afterLogout" \in ev.loc.facts)
       => (ev.res.status = 401 /\ ev.res.tokens = NoTokens)

C18_Witness ==
  /\ ev.req.op = "refresh"
  /\ "afterLogout" \in ev.loc.facts
  /\ ev.loc.tokenRecord # NoRow
  /\ ~(ev.loc.tokenRecord.expiresAt < ev.loc.at)
  /\ ev.res.status = 401

\* C19: a changePassword whose currentPassword is not the password behind
\* the stored hash is answered 400 AUTH_INVALID_PASSWORD and writes nothing:
\* the User rows and the RefreshToken rows are as the request found them,
\* and the request never reaches the password update or the revocation.
C19_WrongCurrentPassword ==
  /\ \A p \in Procs :
       pc[p] \in {"cp_updatePassword", "cp_revokeAll"}
         => req[p].password = loc[p].plainAtRead
  /\ (/\ ev.req.op = "changePassword"
      /\ ev.loc.plainAtRead # ""
      /\ ev.req.password # ev.loc.plainAtRead)
       => /\ ev.res.status = 400
          /\ ev.res.code = "AUTH_INVALID_PASSWORD"
          /\ users = ev.loc.usersBefore
          /\ refreshTokens = ev.loc.rowsBefore

C19_Witness ==
  /\ ev.req.op = "changePassword"
  /\ "compared" \in ev.loc.facts
  /\ ev.req.password # ev.loc.plainAtRead
  /\ ev.res.status = 400

\* C20: a login for a user whose row has isActive = FALSE is answered 403
\* AUTH_ACCOUNT_DEACTIVATED whatever the password; it appends exactly one
\* LoginLog row, with failReason ACCOUNT_DEACTIVATED, creates no RefreshToken
\* row, leaves lastLoginAt alone and never reaches the steps of a successful
\* login.
C20_DeactivatedLogin ==
  /\ \A p \in Procs :
       pc[p] \in {"lg_updateLastLogin", "lg_createToken", "lg_logSuccess"}
         => loc[p].user.isActive
  /\ (ev.req.op = "login" /\ ev.loc.user # NoUser /\ ~ev.loc.user.isActive)
       => /\ ev.res.status = 403
          /\ ev.res.code = "AUTH_ACCOUNT_DEACTIVATED"
          /\ ev.res.tokens = NoTokens
          /\ loginLogs = Append(ev.loc.logsBefore,
                 [userId |-> ev.loc.user.id, loginType |-> "EMAIL",
                  isSuccess |-> FALSE, failReason |-> "ACCOUNT_DEACTIVATED"])
          /\ refreshTokens = ev.loc.rowsBefore
          /\ users = ev.loc.usersBefore

C20_Witness ==
  /\ ev.req.op = "login"
  /\ ev.loc.user # NoUser
  /\ ~ev.loc.user.isActive
  /\ ev.req.password = storedPlain[ev.loc.user.id]
  /\ ev.res.status = 403

\* C21: a login with the stored password of an active user answers 200 with
\* a pair and leaves a RefreshToken row of that user holding the returned
\* refresh token, not revoked and expiring 7 days after the login, plus one
\* more LoginLog row with isSuccess = TRUE; also when the user has sessions
\* already and when the same user logged in within the same clock second.
C21_LoginOpensSession ==
  (/\ ev.req.op = "login"
   /\ ev.loc.user # NoUser
   /\ ev.loc.user.isActive
   /\ bcryptCompare(ev.req.password, ev.loc.user.password))
    => /\ ev.res.status = 200
       /\ \E i \in DOMAIN refreshTokens :
            /\ refreshTokens[i].token = ev.res.tokens.refreshToken
            /\ refreshTokens[i].userId = ev.loc.user.id
            /\ ~refreshTokens[i].isRevoked
            /\ refreshTokens[i].expiresAt \in
                 (ev.loc.at + SEVEN_DAYS) .. (now + SEVEN_DAYS)
       /\ loginLogs = Append(ev.loc.logsBefore,
                             LoginLog(ev.loc.user.id, TRUE, ""))

\* C22: a login that fails against an existing user (deactivated account or
\* wrong password) appends exactly one LoginLog row, with isSuccess = FALSE
\* and the failReason of its cause, and a wrong password is answered 401, so
\* that n such attempts leave n rows; a login whose email matches no user is
\* answered 401 and appends no row.
C22_FailedLoginLogged ==
  ev.req.op = "login" =>
    /\ ev.loc.user = NoUser
         => (ev.res.status = 401 /\ loginLogs = ev.loc.logsBefore)
    /\ (ev.loc.user # NoUser /\ ~ev.loc.user.isActive)
         => loginLogs = Append(ev.loc.logsBefore,
              LoginLog(ev.loc.user.id, FALSE, "ACCOUNT_DEACTIVATED"))
    /\ (/\ ev.loc.user # NoUser
        /\ ev.loc.user.isActive
        /\ ~bcryptCompare(ev.req.password, ev.loc.user.password))
         => /\ ev.res.status = 401
            /\ loginLogs = Append(ev.loc.logsBefore,
                 LoginLog(ev.loc.user.id, FALSE, "INVALID_PASSWORD"))

C22_Witness ==
  /\ ev.req.op = "login"
  /\ ev.res.status = 401
  /\ ev.loc.user # NoUser
  /\ Cardinality({i \in DOMAIN loginLogs :
                    loginLogs[i] = LoginLog(ev.loc.user.id, FALSE,
                                            "INVALID_PASSWORD")}) = MaxRequests

\* C23: when register answers 201 the store holds the new User, not verified
\* unless verifyEmail has been run for its token meanwhile, exactly one
\* EmailVerification row of that user, PENDING until then and expiring 24
\* hours after it was issued, and exactly one LoginLog row of that user, with
\* isSuccess = FALSE and failReason REGISTRATION_PENDING_VERIFICATION.
VerificationUsed(verification) ==
  \/ verification.token \in verifiedOk
  \/ \E p \in Procs :
       /\ pc[p] \in {"ve_updateUser", "ve_updateVerification"}
       /\ loc[p].verification.id = verification.id

C23_RegisterEffects ==
  (ev.req.op = "register" /\ ev.res.status = 201) =>
    LET u == ev.loc.user
        v == ev.loc.verification
    IN /\ u.id \in DOMAIN users
       /\ users[u.id].email = toLowerCase(ev.req.email)
       /\ users[u.id].isEmailVerified => VerificationUsed(v)
       /\ {i \in DOMAIN emailVerifications :
             emailVerifications[i].userId = u.id} = {v.id}
       /\ emailVerifications[v.id].status # "PENDING" => VerificationUsed(v)
       /\ emailVerifications[v.id].expiresAt = ev.loc.at + TWENTY_FOUR_HOURS
       /\ \E i \in DOMAIN loginLogs :
            {j \in DOMAIN loginLogs : loginLogs[j].userId = u.id} = {i}
            /\ loginLogs[i] = LoginLog(u.id, FALSE,
                                       "REGISTRATION_PENDING_VERIFICATION")

C23_Witness ==
  /\ ev.req.op = "register"
  /\ ev.res.status = 201
  /\ ~users[ev.loc.user.id].isEmailVerified
  /\ emailVerifications[ev.loc.verification.id].status = "PENDING"
  /\ now > ev.loc.at

\* C24: when register answers 201 a verification mail to the new user's
\* address, carrying the token of the EmailVerification row it created, has
\* been handed to the mail provider.
C24_VerificationMailSent ==
  (ev.req.op = "register" /\ ev.res.status = 201) =>
    \E i \in DOMAIN outbox :
      /\ outbox[i].to = ev.loc.user.email
      /\ outbox[i].verifyToken = ev.loc.verification.token

\* C25: for a token whose signature verifies, refresh answers a revoked row
\* and a row past its expiry with the status, code and message it answers
\* an absent row with, so the caller cannot tell the three cases apart.
C25_RefreshRejectionsAlike ==
  (/\ ev.req.op = "refresh"
   /\ "storeCallFailed" \notin ev.loc.facts
   /\ jwtVerify(ev.req.token, "JWT_REFRESH_SECRET", ev.loc.at) = "ok"
   /\ \/ ev.loc.tokenRecord = NoRow
      \/ ev.loc.tokenRecord.isRevoked
      \/ ev.loc.tokenRecord.expiresAt < ev.loc.at)
    => /\ ev.res.status = 401
       /\ Visible(ev.res) = Visible(refreshRowRejection(NoRow, ev.loc.at))

C25_Witness ==
  /\ ev.req.op = "refresh"
  /\ ev.loc.tokenRecord # NoRow
  /\ ev.loc.tokenRecord.isRevoked
  /\ ~(ev.loc.tokenRecord.expiresAt < ev.loc.at)
  /\ ev.res.status = 401

C25_WitnessAbsent ==
  /\ ev.req.op = "refresh"
  /\ jwtVerify(ev.req.token, "JWT_REFRESH_SECRET", ev.loc.at) = "ok"
  /\ ev.loc.tokenRecord = NoRow
  /\ ev.res.status = 401

C25_WitnessExpired ==
  /\ ev.req.op = "refresh"
  /\ ev.loc.tokenRecord # NoRow
  /\ ~ev.loc.tokenRecord.isRevoked
  /\ ev.loc.tokenRecord.expiresAt < ev.loc.at
  /\ ev.res.status = 401

\* C26: an updateProfile that passed the gate and asks for a username which,
\* when the handler looks it up, belongs to a different user is answered 409
\* and changes no User row; 409 is answered in no other case, so asking for
\* one's own current username is no conflict; when it answers 200, no row
\* but the caller's has changed, and of that row only firstName or username,
\* each only if the request carried it and then to the request's value.
TakenByOther(rows, me, n) ==
  \E i \in DOMAIN rows : i # me /\ rows[i].username = n

ProfileFrame(before, after, me, rq) ==
  /\ DOMAIN after = DOMAIN before
  /\ \A i \in DOMAIN before : i # me => after[i] = before[i]
  /\ after[me] = [before[me] EXCEPT !.firstName = after[me].firstName,
                                    !.username = after[me].username]
  /\ after[me].firstName # before[me].firstName
       => (rq.firstName # NoName /\ after[me].firstName = rq.firstName)
  /\ after[me].username # before[me].username
       => (rq.username # NoUsername /\ after[me].username = rq.username)

C26_UpdateProfile ==
  (ev.req.op = "updateProfile" /\ ev.loc.context # NoContext) =>
    LET me == ev.loc.context.id
        taken == TakenByOther(ev.loc.usersAtLookup, me, ev.req.username)
    IN /\ (/\ ev.req.username # NoUsername
           /\ ev.req.username # ev.loc.context.username
           /\ taken)
         => (ev.res.status = 409 /\ users = ev.loc.usersBefore)
       /\ ev.res.status = 409 => taken
       /\ ev.res.status = 200 => ProfileFrame(ev.loc.usersBefore, users, me,
                                              ev.req)

C26_Witness ==
  /\ ev.req.op = "updateProfile"
  /\ ev.req.firstName # NoName
  /\ TakenByOther(users, ev.loc.context.id, ev.req.username)
  /\ ev.res.status = 409

C26_WitnessOwnName ==
  /\ ev.req.op = "updateProfile"
  /\ ev.req.username = ev.loc.context.username
  /\ ev.req.username # NoUsername
  /\ ev.req.firstName # NoName
  /\ ev.res.status = 200
  /\ users # ev.loc.usersBefore

\* C27: no step of any operation updates or deletes a LoginLog row: the
\* table after a step is the table before it, with rows added at its end
\* or none.
C27_LoginLogAppendOnly ==
  [][/\ Len(loginLogs') >= Len(loginLogs)
     /\ \A i \in DOMAIN loginLogs : loginLogs'[i] = loginLogs[i]]_vars

C27_Witness ==
  /\ ev.req.op \in {"login", "register"}
  /\ ev.loc.logsBefore # <<>>
  /\ loginLogs = Append(ev.loc.logsBefore, loginLogs[Len(loginLogs)])
  /\ Len(loginLogs) > 2

\* C28: a register or login whose LoginLog write failed is answered as it is
\* when the write succeeds, with the store as the write found it: register
\* with its 201 and the User and EmailVerification rows kept; login with the
\* 403 of a deactivated account, the 401 of a wrong password, or the 200
\* with the pair whose RefreshToken row is stored.
C28_LogWriteBestEffort ==
  "logWriteFailed" \in ev.loc.facts =>
    /\ ev.req.op \in {"register", "login"}
    /\ loginLogs = ev.loc.logsBefore
    /\ ev.req.op = "register" =>
         /\ ev.res = withUser(RegistrationSuccess, createSelect(ev.loc.user))
         /\ users[ev.loc.user.id].email = ev.loc.user.email
         /\ emailVerifications[ev.loc.verification.id] = ev.loc.verification
    /\ (ev.req.op = "login" /\ ~ev.loc.user.isActive) =>
         /\ ev.res.status = 403
         /\ users = ev.loc.usersBefore
         /\ refreshTokens = ev.loc.rowsBefore
    /\ (/\ ev.req.op = "login"
        /\ ev.loc.user.isActive
        /\ ~bcryptCompare(ev.req.password, ev.loc.user.password)) =>
         /\ ev.res = InvalidPasswordResponse
         /\ users = ev.loc.usersBefore
         /\ refreshTokens = ev.loc.rowsBefore
    /\ (/\ ev.req.op = "login"
        /\ ev.loc.user.isActive
        /\ bcryptCompare(ev.req.password, ev.loc.user.password)) =>
         /\ ev.res = withUser(createSuccessResponse(200, ev.loc.tokens,
                                  "Login successful", "LOGIN_SUCCESS"),
                               userResponse(ev.loc.user))
         /\ ev.loc.tokens # NoTokens
         /\ findRefreshToken(ev.loc.tokens.refreshToken).userId = ev.loc.user.id
         /\ users[ev.loc.user.id].lastLoginAt = ev.loc.at

C28_Witness ==
  /\ "logWriteFailed" \in ev.loc.facts
  /\ ev.req.op = "login"
  /\ ev.res.status = 200
  /\ \E i \in DOMAIN loginLogs :
       loginLogs[i].failReason = "REGISTRATION_PENDING_VERIFICATION"
  /\ \A p \in Procs : pc[p] = "idle"
  /\ \E i \in DOMAIN users :
       \A j \in DOMAIN loginLogs : loginLogs[j].userId # i

\* C29: a request during which a store call other than the LoginLog write
\* rejected is answered 500 INTERNAL_ERROR, whatever the operation or gate.
C29_StoreFailureIs500 ==
  "storeCallFailed" \in ev.loc.facts =>
    (ev.res.status = 500 /\ ev.res.code = "INTERNAL_ERROR")

\* the same, the optional gate left aside
C29_ExceptOptionalGate ==
  ("storeCallFailed" \in ev.loc.facts /\ ev.req.op # "auth.optional") =>
    (ev.res.status = 500 /\ ev.res.code = "INTERNAL_ERROR")

\* C30: an error kind is answered with one status and one code wherever it
\* is raised: a token that fails verification gets from refresh and from
\* verifyEmail the status and code the request gate answers it with, and
\* "user not found" has the gate's status wherever it is answered.
InvalidTokenCase(e) ==
  \/ /\ e.req.op = "auth.required"
     /\ e.req.authorization # NoHeader
     /\ e.req.authorization.scheme = "Bearer "
     /\ jwtVerify(e.req.authorization.credentials, "JWT_SECRET", e.loc.at)
          = "JsonWebTokenError"
  \/ /\ e.req.op = "refresh"
     /\ jwtVerify(e.req.token, "JWT_REFRESH_SECRET", e.loc.at)
          = "JsonWebTokenError"
  \/ /\ e.req.op = "verifyEmail"
     /\ "storeCallFailed" \notin e.loc.facts
     /\ e.loc.verification = NoVerification

GateOnInvalidToken == authMiddleware(Bearer(GarbageToken), NoUser, 0)
GateOnMissingUser ==
  authMiddleware(Bearer(jwtSign(9, "JWT_SECRET", 0)), NoUser, 0)

C30_ErrorKindsStable ==
  /\ InvalidTokenCase(ev) => /\ ev.res.code = GateOnInvalidToken.code
                             /\ ev.res.status = GateOnInvalidToken.status
  /\ ev.res.code = GateOnMissingUser.code
       => ev.res.status = GateOnMissingUser.status

HidesPassword(projection) == "password" \notin DOMAIN projection

\* C31: no response of register, login, getProfile or updateProfile carries
\* the password hash field of a user, and neither does the context the
\* request gate attaches.
C31_NoPasswordHashSent ==
  /\ ev.req.op \in {"register", "login", "getProfile", "updateProfile"}
       => HidesPassword(ev.res.user)
  /\ HidesPassword(ev.loc.context)
  /\ \A p \in Procs : HidesPassword(loc[p].context)

C31_Witness ==
  /\ ev.req.op = "login"
  /\ ev.res.status = 200
  /\ ev.res.user.id \in DOMAIN users
  /\ users[ev.res.user.id].password.alg = "bcrypt"
  /\ ev.res.user.email = users[ev.res.user.id].email

SecretOf(kind) == IF kind = "refresh" THEN getRefreshSecret ELSE getAccessSecret

ExpiredError(kind) ==
  CASE kind = "access" -> "Access token expired"
    [] kind = "refresh" -> "Refresh token expired"
    [] kind = "password_reset" -> "Password reset token expired"
    [] kind = "email_verify" -> "Email verification token expired"

InvalidError(kind) ==
  CASE kind = "access" -> "Invalid access token"
    [] kind = "refresh" -> "Invalid refresh token"
    [] kind = "password_reset" -> "Invalid password reset token"
    [] kind = "email_verify" -> "Invalid email verification token"

\* C32: a JwtService verifier reports three failure kinds apart: the expired
\* error for a token of its secret past its expiry, the invalid error for a
\* token of another signature, and for a token of its secret that is not
\* expired but carries the type of another kind an error that is neither.
C32_ThreeFailureKinds ==
  ev.req.op = "verify" =>
    LET kind == ev.req.verifier
        tok == ev.req.token
        verdict == ev.loc.verdict
        signed == tok.secret = SecretOf(kind)
        expired == signed /\ tok.exp # NoExp /\ ev.loc.at >= tok.exp
    IN /\ expired => verdict.thrown = ExpiredError(kind)
       /\ ~signed => verdict.thrown = InvalidError(kind)
       /\ (signed /\ ~expired /\ tok.type \in Verifiers \ {kind})
            => /\ ~verdict.accepted
               /\ verdict.thrown \notin {ExpiredError(kind), InvalidError(kind)}

\* the part of C32 that the verifiers with a type check keep
C32_ExceptUntypedVerifiers ==
  (ev.req.op = "verify" /\ ev.req.verifier \in {"password_reset", "email_verify"})
    => C32_ThreeFailureKinds

VerifiedTogether ==
  \A i \in DOMAIN emailVerifications :
    emailVerifications[i].status = "VERIFIED"
      <=> users[emailVerifications[i].userId].isEmailVerified

\* C33: whenever no verifyEmail request stands between its two writes, an
\* EmailVerification row is VERIFIED exactly if its user has isEmailVerified
\* set, also after a store call of verifyEmail has failed.
C33_VerifiedAsOne ==
  (\A p \in Procs : pc[p] \notin {"ve_updateUser", "ve_updateVerification"})
    => VerifiedTogether

\* C33 read for every state, the ones between the two writes included
C33_VerifiedAsOneAlways == VerifiedTogether

VerifyEmailAnswered(e) ==
  e.req.op = "verifyEmail" /\ "storeCallFailed" \notin e.loc.facts

VerificationFrame ==
  /\ users' = users
  /\ emailVerifications' = emailVerifications

VerifyEmailInOrder ==
  LET e == ev'
      v == e.loc.verification
      expired == v.expiresAt < e.loc.at
  IN VerifyEmailAnswered(e) =>
       /\ v = NoVerification
            => /\ e.res.status = 400 /\ e.res.code = "AUTH_INVALID_TOKEN"
               /\ VerificationFrame
       /\ (v # NoVerification /\ expired)
            => /\ e.res.status = 400 /\ e.res.code = "AUTH_TOKEN_EXPIRED"
               /\ VerificationFrame
       /\ (v # NoVerification /\ ~expired /\ v.status = "VERIFIED")
            => /\ e.res.status = 200 /\ e.res.code = "EMAIL_ALREADY_VERIFIED"
               /\ VerificationFrame
       /\ (v # NoVerification /\ ~expired /\ v.status # "VERIFIED")
            => /\ e.res.status = 200
               /\ e.res.code = "EMAIL_VERIFICATION_SUCCESS"
               /\ users'[v.userId].isEmailVerified
               /\ emailVerifications'[v.id].status = "VERIFIED"

VerificationsKept ==
  /\ Len(emailVerifications') >= Len(emailVerifications)
  /\ Len(users') >= Len(users)
  /\ \A i \in DOMAIN emailVerifications :
       /\ emailVerifications'[i].token = emailVerifications[i].token
       /\ emailVerifications[i].status = "VERIFIED"
            => emailVerifications'[i].status = "VERIFIED"

\* C34: verifyEmail answers a token without a row with InvalidToken, a row
\* past its expiresAt with TokenExpired also when the row is VERIFIED, a
\* VERIFIED row with success and no write, and any other row with the two
\* writes; a rejected call changes no User and no EmailVerification row, no
\* step deletes a row, and a VERIFIED row stays VERIFIED.
C34_VerifyEmailOrder == [][VerifyEmailInOrder /\ VerificationsKept]_vars

C34_Witness ==
  /\ ev.req.op = "verifyEmail"
  /\ ev.res.status = 400
  /\ ev.res.code = "AUTH_TOKEN_EXPIRED"
  /\ ev.loc.verification.status = "VERIFIED"
  /\ emailVerifications[ev.loc.verification.id].status = "VERIFIED"
  /\ users[ev.loc.verification.userId].isEmailVerified

RowLeftBy(e) == findRefreshToken(e.res.tokens.refreshToken)

\* C35: once every request has completed, the RefreshToken row left by a
\* login that checked a password which a changePassword has replaced since,
\* or by a refresh whose presented row a completed changePassword covered,
\* is revoked.
C35_ChangeOutlivesRaces ==
  (\A p \in Procs : pc[p] = "idle") =>
    /\ (/\ ev.req.op = "login"
        /\ ev.res.status = 200
        /\ ev.req.password # storedPlain[ev.loc.user.id])
         => RowLeftBy(ev).isRevoked
    /\ (/\ ev.req.op = "refresh"
        /\ ev.res.status = 200
        /\ ev.loc.tokenRecord.id \in mustBeRevoked)
         => RowLeftBy(ev).isRevoked

\* C36: a refresh that answers an error leaves the row of the presented token
\* as it read it: it never ends with that row revoked and no pair issued.
C36_FailedRefreshKeepsRow ==
  (/\ ev.req.op = "refresh"
   /\ ev.res.status # 200
   /\ ev.loc.tokenRecord # NoRow)
    => refreshTokens[ev.loc.tokenRecord.id] = ev.loc.tokenRecord

Deactivated(userId) == userId \in DOMAIN users /\ ~users[userId].isActive

\* C37: refresh does not read User.isActive: while the user is deactivated,
\* a refresh of a stored, non-revoked, unexpired token reaches the rotation
\* writes and answers 200 with a pair unless a store call of the rotation is
\* rejected, whereas the request gate answers the same user's access token
\* with 403.
C37_RefreshIgnoresActive ==
  /\ (/\ ev.req.op = "refresh"
      /\ RowUsable(ev.loc.tokenRecord, ev.loc.at)
      /\ Deactivated(ev.loc.tokenRecord.userId)
      /\ "storeCallFailed" \notin ev.loc.facts)
       => (ev.res.status = 200 /\ ev.res.tokens # NoTokens)
  /\ (/\ ev.req.op = "auth.required"
      /\ reachesUserLookup(ev.req.authorization, ev.loc.at)
      /\ Deactivated(ev.req.authorization.credentials.userId))
       => (ev.res.status = 403 /\ ev.res.code = "AUTH_ACCOUNT_DEACTIVATED")

C37_Witness ==
  /\ ev.req.op = "refresh"
  /\ ev.res.status = 200
  /\ Deactivated(ev.loc.tokenRecord.userId)
  /\ ~RowLeftBy(ev).isRevoked
  /\ RowLeftBy(ev).userId = ev.loc.tokenRecord.userId

C37_WitnessGate ==
  /\ ev.req.op = "auth.required"
  /\ ev.res.status = 403
  /\ \E i \in DOMAIN refreshTokens :
       /\ refreshTokens[i].userId = ev.req.authorization.credentials.userId
       /\ RowUsable(refreshTokens[i], now)

GateAccepted(e) == e.res = NoRes /\ e.loc.nextCalls = 1

NoSessionLeft(userId) ==
  /\ \E i \in DOMAIN refreshTokens : refreshTokens[i].userId = userId
  /\ \A i \in DOMAIN refreshTokens :
       refreshTokens[i].userId = userId => refreshTokens[i].isRevoked

\* C38: the request gate lets a request through exactly if its access token
\* verifies and the token's user exists and is active at that moment, whatever
\* the RefreshToken table holds: an access token issued before a logout, a
\* rotation or a changePassword is accepted afterwards.
C38_GateIgnoresSessions ==
  (ev.req.op = "auth.required" /\ "storeCallFailed" \notin ev.loc.facts) =>
    LET authHeader == ev.req.authorization
        user == findUserById(authHeader.credentials.userId)
    IN GateAccepted(ev) <=> /\ reachesUserLookup(authHeader, ev.loc.at)
                            /\ user # NoUser
                            /\ user.isActive

C38_Witness ==
  /\ ev.req.op = "auth.required"
  /\ GateAccepted(ev)
  /\ ev.req.authorization.credentials \in issued
  /\ loggedOut # {}
  /\ NoSessionLeft(ev.loc.context.id)

C38_WitnessPasswordChanged ==
  /\ ev.req.op = "auth.required"
  /\ GateAccepted(ev)
  /\ ev.req.authorization.credentials \in issued
  /\ storedPlain[ev.loc.context.id] = PwTwo
  /\ NoSessionLeft(ev.loc.context.id)

C38_WitnessRotated ==
  /\ ev.req.op = "auth.required"
  /\ GateAccepted(ev)
  /\ ev.req.authorization.credentials = SeedTokens.accessToken
  /\ redeemed = {SeedTokens.refreshToken}

RevokedTokens(rows) == {rows[i].token : i \in {j \in DOMAIN rows : rows[j].isRevoked}}

RevocationKept ==
  /\ Len(refreshTokens') >= Len(refreshTokens)
  /\ \A i \in DOMAIN refreshTokens :
       /\ refreshTokens'[i].token = refreshTokens[i].token
       /\ refreshTokens[i].isRevoked => refreshTokens'[i].isRevoked
  /\ RevokedTokens(refreshTokens) \subseteq RevokedTokens(refreshTokens')

\* C39: no step of login, refresh, logout or changePassword deletes a
\* RefreshToken row or sets isRevoked back to false: the set of revoked token
\* strings only grows.
C39_RevocationIsFinal == [][RevocationKept]_vars

C39_Witness ==
  /\ ev.req.op = "logout"
  /\ "afterLogout" \in ev.loc.facts
  /\ \E i \in DOMAIN ev.loc.rowsBefore :
       /\ ev.loc.rowsBefore[i].token = ev.req.token
       /\ ev.loc.rowsBefore[i].isRevoked
       /\ refreshTokens[i].isRevoked

FailsSchema(rq) ==
  \/ rq.op \in {"register", "login"} /\ rq.email = EmailMalformed
  \/ rq.op \in {"register", "updateProfile"} /\ rq.username = UsernameShort
  \/ rq.op = "refresh" /\ rq.token = NoToken
  \/ rq.op = "changePassword" /\ rq.newPassword = rq.password

\* updateProfile and changePassword stand behind the request gate, which
\* answers before the handler is entered
Entered(e) ==
  CASE e.req.op = "updateProfile" -> e.loc.context # NoContext
    [] e.req.op = "changePassword" -> e.loc.user \notin {NoUser, Rejected}
    [] OTHER -> TRUE

AnsweredAtValidation ==
  LET e == ev'
  IN (FailsSchema(e.req) /\ Entered(e)) =>
       /\ e.res = InternalError
       /\ started' = started + 1
       /\ store' = store

\* C40: a body that fails the schema of register, login, refreshToken,
\* updateProfile or changePassword is answered 500 INTERNAL_ERROR by the
\* handler in its first step, before the handler calls the store, and the
\* request writes nothing.
C40_InvalidBodyIs500 == [][AnsweredAtValidation]_vars

C40_Witness ==
  /\ ev.req.op = "register"
  /\ ev.req.email = EmailMalformed
  /\ ev.res = InternalError
  /\ "storeCallFailed" \notin ev.loc.facts

C40_WitnessLogin ==
  ev.req.op = "login" /\ ev.req.email = EmailMalformed /\ ev.res = InternalError

C40_WitnessRefresh ==
  ev.req.op = "refresh" /\ ev.req.token = NoToken /\ ev.res = InternalError

C40_WitnessProfile ==
  /\ ev.req.op = "updateProfile"
  /\ ev.req.username = UsernameShort
  /\ ev.res = InternalError

C40_WitnessPassword ==
  /\ ev.req.op = "changePassword"
  /\ ev.req.newPassword = ev.req.password
  /\ ev.res = InternalError
====
